---- MODULE Spec2Model ----
\* State-machine model of CalendarEventViewModel (calendar event editing,
\* attendee reconciliation and notification dispatch).
EXTENDS Integers, Sequences, FiniteSets, TLC

VARIABLES
    existingEvent,      \* this.existingEvent (NoEvent when absent)
    persistedEvent,     \* the calendar store's copy of the event handed to the constructor
    opened,             \* how the dialog was opened: from the calendar, or from a calendar file
    calendars,          \* the calendars map: known calendar ids -> [shared]
    capability,         \* the viewer's share capability on the calendar group
    mailAddresses,      \* this._mailAddresses
    attendees,          \* this.attendees
    organizer,          \* this.organizer
    possibleOrganizers, \* this.possibleOrganizers
    going,              \* this.going
    eventType,          \* this._eventType
    readOnly,           \* this.readOnly
    allDay,             \* this.allDay()
    startDate,          \* this.startDate (instant, seconds)
    endDate,            \* this.endDate
    startTime,          \* this.startTime (time-of-day text)
    endTime,            \* this.endTime
    oldStartTime,       \* this._oldStartTime: empty when unset, else the one time text
    repeat,             \* this.repeat (NoRepeat when null)
    alarms,             \* this.alarms: the triggers of the alarms, in order
    alarmLoad,          \* the loadAlarms promise of the constructor and the alarms it loads
    pc,                 \* position of the save flow
    chain,              \* the promise chain in flight: branch, awaited call, answer
    closure,            \* values captured by the save: newEvent and the three diff lists
    detached,           \* collaborator calls in flight whose promise nobody awaits
    result,             \* value the promise of onOkPressed resolved with
    cbPromise,          \* state of the promise returned by askForUpdates
    deletion,           \* state of the promise returned by deleteEvent
    trace               \* collaborator calls and their completions, in order

\* Set by the constructor and never assigned afterwards.
fixedVars == <<persistedEvent, opened, calendars, capability, mailAddresses, eventType, readOnly, possibleOrganizers>>
guestVars == <<attendees, organizer, going>>
timeVars == <<allDay, startDate, endDate, startTime, endTime, oldStartTime>>
ruleVars == <<repeat, alarms, alarmLoad>>
flowVars == <<pc, chain, closure, detached, result, cbPromise, deletion, trace>>
vars == <<existingEvent, fixedVars, guestVars, timeVars, ruleVars, flowVars>>

-----------------------------------------------------------------------------
\* Bounds of the model.
MaxAttendees == 2
MaxExistingAttendees == 2
MaxAlarms == 1
\* Dates stay between MaxDay days before day 0 and MaxDay days after the end of the year.
MaxDay == 3

-----------------------------------------------------------------------------
\* Program constants.
NULL == "null"

OWN == "own"
SHARED_RO == "shared_ro"
SHARED_RW == "shared_rw"
INVITE == "invite"
EventType == {OWN, SHARED_RO, SHARED_RW, INVITE}

NEEDS_ACTION == "0"
ACCEPTED == "1"
DECLINED == "2"
TENTATIVE == "3"
CalendarAttendeeStatus == {NEEDS_ACTION, ACCEPTED, DECLINED, TENTATIVE}

CapRead == 0
CapWrite == 1
CapInvite == 2
CapNone == -1

calendarGroupId == "0"

\* Instants are counted in seconds.
Minute == 60
Hour == 60 * Minute
DayMinutes == 1440
Day == DayMinutes * Minute
ZoneOffset == 2 * Hour
YearDays == 365
MonthDays == 30
TIMESTAMP_ZERO_YEAR == 1970

\* RepeatPeriod and EndType
DAILY == "0"
MONTHLY == "2"
Never == "0"
Count == "1"
UntilDate == "2"
EndType == {Never, Count, UntilDate}

NoRepeat == [exists |-> FALSE]

\* The number that is not a number: no number used as a count or an instant equals it.
NaN == -1000000
isNaN(n) == n = NaN

\* a < b on numbers: false when one of them is not a number.
lessThan(a, b) == ~isNaN(a) /\ ~isNaN(b) /\ a < b

\* AlarmInterval.FIVE_MINUTES
AlarmTriggers == {"5M"}

NoEvent == [exists |-> FALSE]

Statuses == CalendarAttendeeStatus

\* The viewer's enabled mail addresses (default sender first, then aliases) and
\* the addresses of other people.
OwnAddresses == <<"me", "alias">>
GuestOrder == <<"a", "b", "c">>
GuestAddresses == {GuestOrder[i] : i \in DOMAIN GuestOrder}
OtherOrganizer == "org"
Addresses == {OwnAddresses[i] : i \in DOMAIN OwnAddresses} \cup GuestAddresses

-----------------------------------------------------------------------------
\* Array helpers.
includes(seq, x) == \E i \in DOMAIN seq : seq[i] = x

\* Index of the first attendee with the address, 0 when there is none.
findByAddress(list, address) ==
    IF \E i \in DOMAIN list : list[i].address = address
    THEN CHOOSE i \in DOMAIN list :
            /\ list[i].address = address
            /\ \A j \in 1..(i - 1) : list[j].address # address
    ELSE 0

hasAddress(list, address) == findByAddress(list, address) # 0

removeAt(list, i) == SubSeq(list, 1, i - 1) \o SubSeq(list, i + 1, Len(list))

createCalendarEventAttendee(address, status) == [address |-> address, status |-> status]

-----------------------------------------------------------------------------
\* Date helpers. Instants are seconds; the zone is a fixed offset from UTC.
getStartOfDayWithZone(t) == t - ((t + ZoneOffset) % Day)

getStartOfNextDayWithZone(t) == getStartOfDayWithZone(t) + Day

getAllDayDateUTCFromZone(t) == ((t + ZoneOffset) \div Day) * Day

getAllDayDateForTimezone(utc) == ((utc \div Day) * Day) - ZoneOffset

isAllDayEvent(ev) == ev.startTime % Day = 0 /\ ev.endTime % Day = 0

getEventStart(ev) ==
    IF isAllDayEvent(ev) THEN getAllDayDateForTimezone(ev.startTime) ELSE ev.startTime

getEventEnd(ev) ==
    IF isAllDayEvent(ev) THEN getAllDayDateForTimezone(ev.endTime) ELSE ev.endTime

incrementDate(t, days) == t + days * Day

\* A time-of-day text "h:m" is kept as the two numbers written in it.
timeText(h, m) == [hours |-> h, minutes |-> m]

timeStringInZone(t) ==
    timeText(((t + ZoneOffset) % Day) \div Hour, (((t + ZoneOffset) % Day) % Hour) \div Minute)

parseTime(text) == text.hours \in 0..23 /\ text.minutes \in 0..59

\* DateTime.fromJSDate(date, {zone}).set({hour, minute}).toJSDate()
setHourMinute(date, text) ==
    getStartOfDayWithZone(date) + text.hours * Hour + text.minutes * Minute

\* Local midnight of day number d.
dayStart(d) == d * Day - ZoneOffset

\* Whole days from b to a, negative when a is before b.
getDiffInDays(a, b) == (a - b) \div Day

\* DateTime.fromJSDate(date, {zone}).plus({days}).toJSDate()
plusDays(date, days) == date + days * Day

\* Years have a fixed length; day 0 is the first day of TIMESTAMP_ZERO_YEAR.
getFullYear(t) == TIMESTAMP_ZERO_YEAR + ((t + ZoneOffset) \div (YearDays * Day))

setFullYear(t, year) == t + (year - getFullYear(t)) * YearDays * Day

incrementByRepeatPeriod(t, period, n) ==
    IF period = MONTHLY THEN t + n * MonthDays * Day ELSE t + n * Day

\* A decimal string is kept as the sequence of its digits.
RECURSIVE decimalString(_)
decimalString(n) ==
    IF n < 10 THEN <<n>> ELSE Append(decimalString(n \div 10), n % 10)

RECURSIVE filterInt(_)
filterInt(digits) ==
    IF Len(digits) = 0 THEN 0
    ELSE 10 * filterInt(SubSeq(digits, 1, Len(digits) - 1)) + digits[Len(digits)]

-----------------------------------------------------------------------------
\* Permission resolver (constructor and capability predicates).
hasCapabilityOnGroup(cap, required) == required <= cap

\* calendars.get(existingEvent._ownerGroup), guarded by the owner group being set
calendarInfoForEvent(ev, cals) == ev.ownerGroup # NULL /\ ev.ownerGroup \in DOMAIN cals

\* Mutant: an event without a known owning calendar counts as the viewer's own.
eventTypeOf_unknownCalendarIsOwn(ev, cals, cap) ==
    IF ~ev.exists THEN OWN
    ELSE IF calendarInfoForEvent(ev, cals)
         THEN IF cals[ev.ownerGroup].shared
              THEN IF hasCapabilityOnGroup(cap, CapWrite) THEN SHARED_RW ELSE SHARED_RO
              ELSE IF ev.isCopy THEN INVITE ELSE OWN
         ELSE OWN

\* Mutant: the copy flag is looked at before the calendar's shared flag.
eventTypeOf_copyFirst(ev, cals, cap) ==
    IF ~ev.exists THEN OWN
    ELSE IF calendarInfoForEvent(ev, cals)
         THEN IF ev.isCopy
              THEN INVITE
              ELSE IF cals[ev.ownerGroup].shared
                   THEN IF hasCapabilityOnGroup(cap, CapWrite) THEN SHARED_RW ELSE SHARED_RO
                   ELSE OWN
         ELSE INVITE

eventTypeOf(ev, cals, cap) ==
    IF ~ev.exists THEN OWN
    ELSE IF calendarInfoForEvent(ev, cals)
         THEN IF cals[ev.ownerGroup].shared
              THEN IF hasCapabilityOnGroup(cap, CapWrite) THEN SHARED_RW ELSE SHARED_RO
              ELSE IF ev.isCopy THEN INVITE ELSE OWN
         ELSE INVITE

\* Mutant: a writable shared calendar never makes the event read-only.
readOnlyOf_writableNeverReadOnly(type, ev) == type = SHARED_RO

readOnlyOf(type, ev) ==
    /\ type # OWN
    /\ type # INVITE
    /\ (type # SHARED_RW \/ Len(ev.attendees) # 0)

\* Mutant: the copy flag is not looked at.
canModifyGuestsOf_ignoresCopy(type, ev) == type = OWN \/ type = INVITE

canModifyGuestsOf(type, ev) ==
    /\ type = OWN \/ type = INVITE
    /\ ~ev.exists \/ ~ev.isCopy

\* Mutant: the guests of the existing event decide, not the current list.
canModifyOrganizerOf_savedGuests(type, ev, list) ==
    /\ type = OWN \/ type = INVITE
    /\ ~ev.exists \/ ~ev.isCopy
    /\ ~ev.exists \/ Len(ev.attendees) = 0

canModifyOrganizerOf(type, ev, list) ==
    /\ type = OWN \/ type = INVITE
    /\ ~ev.exists \/ ~ev.isCopy
    /\ Len(list) = 0

possibleOrganizersOf(type, ev, mails) ==
    IF ev.exists /\ ev.organizer # NULL /\ ~canModifyOrganizerOf(type, ev, ev.attendees)
    THEN <<ev.organizer>>
    ELSE mails

viewingOwnEventOf(ev, mails) ==
    \/ ~ev.exists
    \/ /\ ~ev.isCopy
       /\ ev.organizer = NULL \/ includes(mails, ev.organizer)

\* Index of the first attendee that is one of the viewer's addresses, 0 if none.
findOwnAttendeeOf(list, mails) ==
    IF \E i \in DOMAIN list : includes(mails, list[i].address)
    THEN CHOOSE i \in DOMAIN list :
            /\ includes(mails, list[i].address)
            /\ \A j \in 1..(i - 1) : ~includes(mails, list[j].address)
    ELSE 0

\* Mutant: only the organizer-equivalent viewer may answer.
canModifyOwnAttendanceOf_organizerOnly(type, ev, list, mails) ==
    /\ type = OWN \/ type = INVITE
    /\ viewingOwnEventOf(ev, mails)

canModifyOwnAttendanceOf(type, ev, list, mails) ==
    /\ type = OWN \/ type = INVITE
    /\ viewingOwnEventOf(ev, mails) \/ findOwnAttendeeOf(list, mails) # 0

canModifyGuests == canModifyGuestsOf(eventType, existingEvent)
canModifyOrganizer == canModifyOrganizerOf(eventType, existingEvent, attendees)
canModifyOwnAttendance == canModifyOwnAttendanceOf(eventType, existingEvent, attendees, mailAddresses)
canModifyAlarms == eventType = OWN \/ eventType = INVITE \/ eventType = SHARED_RW
viewingOwnEvent == viewingOwnEventOf(existingEvent, mailAddresses)
findOwnAttendee == findOwnAttendeeOf(attendees, mailAddresses)

-----------------------------------------------------------------------------
\* Attendee reconciler: the three lists computed by onOkPressed.
isOwn(a, mails) == includes(mails, a.address)

existingAttendeesOf(ev, list, mails) ==
    IF viewingOwnEventOf(ev, mails) /\ ev.exists
    THEN SelectSeq(list, LAMBDA a : ~isOwn(a, mails) /\ hasAddress(ev.attendees, a.address))
    ELSE <<>>

newAttendeesOf(ev, list, mails) ==
    IF viewingOwnEventOf(ev, mails)
    THEN IF ev.exists
         THEN SelectSeq(list, LAMBDA a : ~isOwn(a, mails) /\ ~hasAddress(ev.attendees, a.address))
         ELSE SelectSeq(list, LAMBDA a : ~isOwn(a, mails))
    ELSE <<>>

\* Mutant: the viewer's own addresses are not left out of the removed list.
removedAttendeesOf_withOwn(ev, list, mails) ==
    IF viewingOwnEventOf(ev, mails) /\ ev.exists
    THEN SelectSeq(ev.attendees, LAMBDA ea : ~hasAddress(list, ea.address))
    ELSE <<>>

removedAttendeesOf(ev, list, mails) ==
    IF viewingOwnEventOf(ev, mails) /\ ev.exists
    THEN SelectSeq(ev.attendees, LAMBDA ea : ~isOwn(ea, mails) /\ ~hasAddress(list, ea.address))
    ELSE <<>>

distributionAddresses(guests) == [i \in DOMAIN guests |-> guests[i].address]

-----------------------------------------------------------------------------
\* Construction.
Now == dayStart(2) + 13 * Hour + 40 * Minute

NoChain == [branch |-> "none", awaiting |-> "none", sendOutUpdate |-> FALSE]
NoClosure == [newEvent |-> NoEvent, newAlarms |-> <<>>, newAttendees |-> <<>>,
              existingAttendees |-> <<>>, removedAttendees |-> <<>>]
NoResult == [status |-> "none", askForUpdates |-> "null", error |-> ""]
NoDeletion == [status |-> "none", error |-> ""]

createCalendarEvent(list, org, copy, owner, id, seq, start, end) ==
    [exists |-> TRUE, attendees |-> list, organizer |-> org, isCopy |-> copy,
     ownerGroup |-> owner, id |-> id, sequence |-> seq, startTime |-> start, endTime |-> end,
     repeatRule |-> NoRepeat]

\* The repeat settings the constructor derives from the rule of the existing event.
repeatOf(ev) ==
    IF ~ev.exists \/ ~ev.repeatRule.exists
    THEN NoRepeat
    ELSE LET rule == ev.repeatRule
             localDate == IF isAllDayEvent(ev)
                          THEN getAllDayDateForTimezone(rule.endValue)
                          ELSE rule.endValue
         IN [exists |-> TRUE, frequency |-> rule.frequency, interval |-> rule.interval,
             endType |-> rule.endType,
             endValue |-> IF rule.endType = UntilDate
                          THEN incrementByRepeatPeriod(localDate, DAILY, -1)
                          ELSE IF rule.endType = Count THEN rule.endValue ELSE 1]

\* Mutant: the end date of an all-day event is the stored, excluded end.
endDateOf_exclusive(ev) == getStartOfDayWithZone(getEventEnd(ev))

\* The end date the constructor shows for an existing event.
endDateOf(ev) ==
    IF isAllDayEvent(ev)
    THEN incrementDate(getEventEnd(ev), -1)
    ELSE getStartOfDayWithZone(getEventEnd(ev))

\* The dialog was opened from the calendar view.
FromCalendar == [by |-> "calendar"]

\* The fields of a view-model built for ev; stored are the triggers of the
\* alarms loadAlarms finds for it. A load that finds nothing adds nothing and
\* is left out.
viewModelOf(ev, cals, cap, mails, stored) ==
    /\ existingEvent = ev
    /\ persistedEvent = ev
    /\ calendars = cals
    /\ capability = cap
    /\ mailAddresses = mails
    /\ attendees = IF ev.exists THEN ev.attendees ELSE <<>>
    /\ organizer = IF ev.exists /\ ev.organizer # NULL THEN ev.organizer ELSE mails[1]
    /\ going = LET list == IF ev.exists THEN ev.attendees ELSE <<>>
                   own == findOwnAttendeeOf(list, mails)
               IN IF own # 0 THEN list[own].status ELSE NEEDS_ACTION
    /\ eventType = eventTypeOf(ev, cals, cap)
    /\ readOnly = readOnlyOf(eventTypeOf(ev, cals, cap), ev)
    /\ possibleOrganizers = possibleOrganizersOf(eventTypeOf(ev, cals, cap), ev, mails)
    /\ allDay = IF ev.exists THEN isAllDayEvent(ev) ELSE TRUE
    /\ startDate = getStartOfDayWithZone(IF ev.exists THEN getEventStart(ev) ELSE Now)
    /\ endDate = IF ev.exists THEN endDateOf(ev) ELSE getStartOfDayWithZone(Now)
    /\ startTime = timeStringInZone(IF ev.exists THEN getEventStart(ev) ELSE Now)
    /\ endTime = timeStringInZone(IF ev.exists THEN getEventEnd(ev) ELSE Now + 30 * Minute)
    /\ oldStartTime = {}
    /\ repeat = repeatOf(ev)
    /\ alarms = <<>>
    /\ alarmLoad = [pending |-> ev.exists /\ stored # <<>>, alarms |-> stored]
    /\ chain = NoChain
    /\ closure = NoClosure
    /\ detached = {}
    /\ result = NoResult
    /\ cbPromise = "none"
    /\ deletion = NoDeletion
    /\ trace = <<>>

constructorFor(ev, cals, cap, mails, stored, how) ==
    /\ viewModelOf(ev, cals, cap, mails, stored)
    /\ opened = how
    /\ pc = "idle"

constructor(ev, cals, cap, mails) == constructorFor(ev, cals, cap, mails, <<>>, FromCalendar)

\* getParsedEvent: the first event of the file when the file parses and
\* that event has a UID, else nothing.
getParsedEvent(fileData) ==
    IF fileData.parses /\ Len(fileData.contents) > 0 /\ fileData.contents[1].uid # NULL
    THEN [exists |-> TRUE, event |-> fileData.contents[1].event, uid |-> fileData.contents[1].uid]
    ELSE [exists |-> FALSE]

\* Mutant: the parsed event is opened as it was parsed.
eventToOpen_unmarked(parsedEvent, byUid) == IF byUid.exists THEN byUid ELSE parsedEvent

\* The event the dialog is opened with: the stored event of that UID, else
\* the parsed event marked as a copy.
eventToOpen(parsedEvent, byUid) ==
    IF byUid.exists THEN byUid ELSE [parsedEvent EXCEPT !.isCopy = TRUE]

\* byUid is what getEventByUid finds for the UID of the file, NoEvent when nothing.
showEventDetailsFromFile(fileData, byUid, cals, cap, mails) ==
    LET parsed == getParsedEvent(fileData)
        how == [by |-> "file", fileData |-> fileData, byUid |-> byUid]
    IN IF ~parsed.exists
       THEN \* Dialog.error("cannotOpenEvent_msg"): no view-model is built, the
            \* variables hold the fields of one that nothing will use
            /\ viewModelOf(NoEvent, cals, cap, mails, <<>>)
            /\ opened = how
            /\ pc = "cannotOpenEvent"
       ELSE constructorFor(eventToOpen(parsed.event, byUid), cals, cap, mails, <<>>, how)

-----------------------------------------------------------------------------
\* Edit operations.
\* Mutant: the address is appended even when it is already in the list.
addAttendee_allowsDuplicate(mailAddress) ==
    /\ pc = "idle"
    /\ Len(attendees) < MaxAttendees
    /\ attendees' = Append(attendees, createCalendarEventAttendee(mailAddress, NEEDS_ACTION))
    /\ UNCHANGED <<existingEvent, fixedVars, organizer, going, timeVars, ruleVars, flowVars>>

addAttendee(mailAddress) ==
    /\ pc = "idle"
    /\ Len(attendees) < MaxAttendees
    /\ attendees' = IF hasAddress(attendees, mailAddress)
                    THEN attendees
                    ELSE Append(attendees, createCalendarEventAttendee(mailAddress, NEEDS_ACTION))
    /\ UNCHANGED <<existingEvent, fixedVars, organizer, going, timeVars, ruleVars, flowVars>>

\* Mutant: the head of the list is removed when the address is in the list.
removeAttendee_removesHead(address) ==
    /\ pc = "idle"
    /\ attendees' = IF findByAddress(attendees, address) # 0
                    THEN removeAt(attendees, 1)
                    ELSE attendees
    /\ UNCHANGED <<existingEvent, fixedVars, organizer, going, timeVars, ruleVars, flowVars>>

\* findAndRemove: the first entry with that address is removed.
removeAttendee(address) ==
    /\ pc = "idle"
    /\ attendees' = LET i == findByAddress(attendees, address)
                    IN IF i # 0 THEN removeAt(attendees, i) ELSE attendees
    /\ UNCHANGED <<existingEvent, fixedVars, organizer, going, timeVars, ruleVars, flowVars>>

\* Mutant: the entry of a viewer who is not in the list goes to the end of the list.
selectGoing_appends(status) ==
    /\ pc = "idle"
    /\ Len(attendees) < MaxAttendees \/ findOwnAttendee # 0
    /\ IF canModifyOwnAttendance
       THEN /\ going' = status
            /\ attendees' =
                 IF findOwnAttendee # 0
                 THEN [attendees EXCEPT ![findOwnAttendee].status = status]
                 ELSE Append(attendees, createCalendarEventAttendee(mailAddresses[1], status))
       ELSE UNCHANGED <<going, attendees>>
    /\ UNCHANGED <<existingEvent, fixedVars, organizer, timeVars, ruleVars, flowVars>>

selectGoing(status) ==
    /\ pc = "idle"
    /\ Len(attendees) < MaxAttendees \/ findOwnAttendee # 0
    /\ IF canModifyOwnAttendance
       THEN /\ going' = status
            /\ attendees' =
                 IF findOwnAttendee # 0
                 THEN [attendees EXCEPT ![findOwnAttendee].status = status]
                 ELSE <<createCalendarEventAttendee(mailAddresses[1], status)>> \o attendees
       ELSE UNCHANGED <<going, attendees>>
    /\ UNCHANGED <<existingEvent, fixedVars, organizer, timeVars, ruleVars, flowVars>>

onEndDateSelected(date) ==
    /\ pc = "idle"
    /\ endDate' = date
    /\ UNCHANGED <<existingEvent, fixedVars, guestVars, allDay, startDate, startTime, endTime,
                   oldStartTime, ruleVars, flowVars>>

\* Date, time, repeat and alarm edits.
inDateRange(t) == dayStart(-MaxDay) <= t /\ t <= dayStart(YearDays + MaxDay)

\* Mutant: the end date stays where it is when the start date moves.
onStartDateSelected_keepsEndDate(date) ==
    /\ pc = "idle"
    /\ IF date = {}
       THEN UNCHANGED <<startDate, endDate>>
       ELSE LET d == CHOOSE x \in date : TRUE
            IN /\ startDate' = IF getFullYear(d) < TIMESTAMP_ZERO_YEAR
                               THEN setFullYear(d, getFullYear(Now))
                               ELSE d
               /\ endDate' = endDate
    /\ UNCHANGED <<existingEvent, fixedVars, guestVars, allDay, startTime, endTime,
                   oldStartTime, ruleVars, flowVars>>

\* date is the empty set when no date is given, else the set of the one date.
onStartDateSelected(date) ==
    /\ pc = "idle"
    /\ IF date = {}
       THEN UNCHANGED <<startDate, endDate>>
       ELSE LET d == CHOOSE x \in date : TRUE
            IN IF getFullYear(d) < TIMESTAMP_ZERO_YEAR
               THEN /\ startDate' = setFullYear(d, getFullYear(Now))
                    /\ endDate' = endDate
               ELSE /\ endDate' = plusDays(endDate, getDiffInDays(d, startDate))
                    /\ startDate' = d
                    /\ inDateRange(endDate')
    /\ UNCHANGED <<existingEvent, fixedVars, guestVars, allDay, startTime, endTime,
                   oldStartTime, ruleVars, flowVars>>

\* _adjustEndTime: the end time that keeps the distance to the old start time.
adjustsEndTime(start, end, old) ==
    /\ old # {}
    /\ parseTime(start)
    /\ parseTime(end)
    /\ \A o \in old : parseTime(o)

adjustedEndTime(start, end, old) ==
    LET o == CHOOSE x \in old : TRUE
        endTotalMinutes == end.hours * 60 + end.minutes
        startTotalMinutes == start.hours * 60 + start.minutes
        distance == endTotalMinutes - o.hours * 60 - o.minutes
        diff == IF distance < 0 THEN -distance ELSE distance
        newEndTotalMinutes == startTotalMinutes + diff
        newEndHours == newEndTotalMinutes \div 60
    IN timeText(IF newEndHours > 23 THEN 23 ELSE newEndHours, newEndTotalMinutes % 60)

onStartTimeSelected(value) ==
    /\ pc = "idle"
    /\ startTime' = value
    /\ IF startDate = endDate /\ adjustsEndTime(value, endTime, oldStartTime)
       THEN /\ endTime' = adjustedEndTime(value, endTime, oldStartTime)
            /\ oldStartTime' = {value}
       ELSE UNCHANGED <<endTime, oldStartTime>>
    /\ UNCHANGED <<existingEvent, fixedVars, guestVars, allDay, startDate, endDate,
                   ruleVars, flowVars>>

onEndTimeSelected(value) ==
    /\ pc = "idle"
    /\ endTime' = value
    /\ UNCHANGED <<existingEvent, fixedVars, guestVars, allDay, startDate, endDate, startTime,
                   oldStartTime, ruleVars, flowVars>>

\* The all-day checkbox of the dialog writes the allDay stream.
setAllDay(checked) ==
    /\ pc = "idle"
    /\ allDay' = checked
    /\ UNCHANGED <<existingEvent, fixedVars, guestVars, startDate, endDate, startTime, endTime,
                   oldStartTime, ruleVars, flowVars>>

\* repeatPeriod is NULL when repeating is switched off.
onRepeatPeriodSelected(repeatPeriod) ==
    /\ pc = "idle"
    /\ repeat' = IF repeatPeriod = NULL
                 THEN NoRepeat
                 ELSE IF repeat.exists
                      THEN [repeat EXCEPT !.frequency = repeatPeriod]
                      ELSE [exists |-> TRUE, frequency |-> repeatPeriod, interval |-> 1,
                            endType |-> Never, endValue |-> 1]
    /\ UNCHANGED <<existingEvent, fixedVars, guestVars, timeVars, alarms, alarmLoad, flowVars>>

onRepeatEndTypeChanged(endType) ==
    /\ pc = "idle"
    /\ repeat' = IF repeat.exists
                 THEN [repeat EXCEPT !.endType = endType,
                                     !.endValue = IF endType = UntilDate
                                                  THEN incrementByRepeatPeriod(Now, MONTHLY, 1)
                                                  ELSE 1]
                 ELSE repeat
    /\ UNCHANGED <<existingEvent, fixedVars, guestVars, timeVars, alarms, alarmLoad, flowVars>>

onEndOccurencesSelected(endValue) ==
    /\ pc = "idle"
    /\ repeat' = IF repeat.exists /\ repeat.endType = Count
                 THEN [repeat EXCEPT !.endValue = endValue]
                 ELSE repeat
    /\ UNCHANGED <<existingEvent, fixedVars, guestVars, timeVars, alarms, alarmLoad, flowVars>>

onRepeatEndDateSelected(endDate_) ==
    /\ pc = "idle"
    /\ repeat' = IF endDate_ # {} /\ repeat.exists /\ repeat.endType = UntilDate
                 THEN [repeat EXCEPT !.endValue = CHOOSE x \in endDate_ : TRUE]
                 ELSE repeat
    /\ UNCHANGED <<existingEvent, fixedVars, guestVars, timeVars, alarms, alarmLoad, flowVars>>

addAlarm(trigger) ==
    /\ pc = "idle"
    /\ Len(alarms) < MaxAlarms
    /\ alarms' = Append(alarms, trigger)
    /\ UNCHANGED <<existingEvent, fixedVars, guestVars, timeVars, repeat, alarmLoad, flowVars>>

\* The loadAlarms promise of the constructor resolves: each loaded alarm is added.
loadAlarmsCompletes ==
    /\ alarmLoad.pending
    /\ alarms' = alarms \o alarmLoad.alarms
    /\ alarmLoad' = [alarmLoad EXCEPT !.pending = FALSE]
    /\ UNCHANGED <<existingEvent, fixedVars, guestVars, timeVars, repeat, flowVars>>

-----------------------------------------------------------------------------
\* Save flow.
callOf(op, to) == [kind |-> "call", op |-> op, to |-> to]
okOf(op) == [kind |-> "ok", op |-> op, to |-> <<>>]
failOf(op) == [kind |-> "fail", op |-> op, to |-> <<>>]

\* The start and end instants computed from the edited dates and times.
newStartTime ==
    IF allDay THEN getAllDayDateUTCFromZone(startDate) ELSE setHourMinute(startDate, startTime)

\* Mutant: the end of an all-day event is the selected end date itself.
newEndTime_inclusive ==
    IF allDay THEN getAllDayDateUTCFromZone(endDate) ELSE setHourMinute(endDate, endTime)

newEndTime ==
    IF allDay
    THEN getAllDayDateUTCFromZone(getStartOfNextDayWithZone(endDate))
    ELSE setHourMinute(endDate, endTime)

\* The end of a rule that ends on a date: the start of the day after that date.
repeatEndDate == getStartOfNextDayWithZone(repeat.endValue)

\* Mutant: a rule that ends exactly at the event start is rejected too.
repeatEndsBeforeStart_notStrict ==
    /\ repeat.exists
    /\ repeat.endType = UntilDate
    /\ repeatEndDate <= getEventStart([startTime |-> newStartTime, endTime |-> newEndTime])

\* The rule ends on a date before the event starts.
repeatEndsBeforeStart ==
    /\ repeat.exists
    /\ repeat.endType = UntilDate
    /\ repeatEndDate < getEventStart([startTime |-> newStartTime, endTime |-> newEndTime])

\* Mutant: the time texts are never checked.
validationError_ignoresTimeFormat ==
    IF newEndTime <= newStartTime THEN "startAfterEnd_label"
    ELSE IF repeatEndsBeforeStart THEN "startAfterEnd_label"
    ELSE ""

\* The error onOkPressed returns before it assembles the event, "" when none.
validationError ==
    IF ~allDay /\ (~parseTime(startTime) \/ ~parseTime(endTime))
    THEN "timeFormatInvalid_msg"
    ELSE IF newEndTime <= newStartTime THEN "startAfterEnd_label"
    ELSE IF repeatEndsBeforeStart THEN "startAfterEnd_label"
    ELSE ""

\* Mutant: the count is written into the rule unchecked.
repeatRuleOf_countUnchecked ==
    IF ~repeat.exists
    THEN NoRepeat
    ELSE LET rule == [exists |-> TRUE, frequency |-> repeat.frequency,
                      interval |-> IF repeat.interval = 0 THEN 1 ELSE repeat.interval,
                      endType |-> repeat.endType, endValue |-> 0]
         IN IF repeat.endType = Count
            THEN [rule EXCEPT !.endValue = repeat.endValue]
            ELSE IF repeat.endType = UntilDate
                 THEN [rule EXCEPT !.endValue = IF allDay
                                                THEN getAllDayDateUTCFromZone(repeatEndDate)
                                                ELSE repeatEndDate]
                 ELSE rule

\* The repeat rule written into the new event.
repeatRuleOf ==
    IF ~repeat.exists
    THEN NoRepeat
    ELSE LET rule == [exists |-> TRUE, frequency |-> repeat.frequency,
                      interval |-> IF repeat.interval = 0 THEN 1 ELSE repeat.interval,
                      endType |-> repeat.endType, endValue |-> 0]
         IN IF repeat.endType = Count
            THEN IF isNaN(repeat.endValue) \/ lessThan(repeat.endValue, 1)
                 THEN [rule EXCEPT !.endType = Never]
                 ELSE [rule EXCEPT !.endValue = repeat.endValue]
            ELSE IF repeat.endType = UntilDate
                 THEN [rule EXCEPT !.endValue = IF allDay
                                                THEN getAllDayDateUTCFromZone(repeatEndDate)
                                                ELSE repeatEndDate]
                 ELSE rule

\* Mutant: the sequence of the existing event is kept.
nextSequence_unchanged(ev) == ev.sequence

\* The sequence of the new event: String(filterInt(existingEvent.sequence) + 1).
nextSequence(ev) == decimalString(filterInt(ev.sequence) + 1)

newEventOf ==
    [createCalendarEvent(attendees, organizer,
                         existingEvent.exists /\ existingEvent.isCopy,
                         IF existingEvent.exists THEN existingEvent.ownerGroup ELSE NULL,
                         IF existingEvent.exists THEN existingEvent.id ELSE NULL,
                         IF existingEvent.exists THEN nextSequence(existingEvent) ELSE <<0>>,
                         newStartTime, newEndTime)
        EXCEPT !.repeatRule = repeatRuleOf]

\* Mutant: the event is always persisted with updateEvent.
doCreateEvent_alwaysUpdate(ev) == "updateEvent"

\* doCreateEvent: the store call that persists the event.
doCreateEvent(ev) == IF ~ev.exists THEN "createEvent" ELSE "updateEvent"

\* Mutant: a response is sent for the status needs-action too.
responseAttendee_evenNeedsAction ==
    IF viewingOwnEvent \/ ~existingEvent.exists
    THEN 0
    ELSE LET own == findOwnAttendeeOf(existingEvent.attendees, mailAddresses)
         IN IF own # 0 /\ existingEvent.attendees[own].status # going THEN own ELSE 0

\* The own attendee of the existing event whose response is sent, 0 when none is.
responseAttendee ==
    IF viewingOwnEvent \/ ~existingEvent.exists
    THEN 0
    ELSE LET own == findOwnAttendeeOf(existingEvent.attendees, mailAddresses)
         IN IF own # 0 /\ going # NEEDS_ACTION /\ existingEvent.attendees[own].status # going
            THEN own
            ELSE 0

\* Mutant: removed guests alone do not make the save ask for updates.
asksForUpdates_retainedOnly(ev, list, mails) ==
    /\ viewingOwnEventOf(ev, mails)
    /\ Len(existingAttendeesOf(ev, list, mails)) # 0

\* Mutant: new guests make the save ask for updates as well.
asksForUpdates_anyGuest(ev, list, mails) ==
    \/ /\ viewingOwnEventOf(ev, mails)
       /\ Len(existingAttendeesOf(ev, list, mails)) # 0
    \/ Len(removedAttendeesOf(ev, list, mails)) # 0
    \/ Len(newAttendeesOf(ev, list, mails)) # 0

\* Condition of the branch that asks for updates.
asksForUpdates(ev, list, mails) ==
    \/ /\ viewingOwnEventOf(ev, mails)
       /\ Len(existingAttendeesOf(ev, list, mails)) # 0
    \/ Len(removedAttendeesOf(ev, list, mails)) # 0

\* Mutant: the response of the guest is recorded and sent before the checks.
returnsEarly_afterResponse(error) ==
    LET own == responseAttendee
    IN /\ result' = [status |-> "error", askForUpdates |-> "null", error |-> error]
       /\ existingEvent' = IF own # 0
                            THEN [existingEvent EXCEPT !.attendees[own].status = going]
                            ELSE existingEvent
       /\ trace' = IF own # 0
                    THEN Append(trace, callOf("sendResponse",
                                              <<existingEvent.attendees[own].address, going>>))
                    ELSE trace
       /\ UNCHANGED <<pc, chain, closure, detached, cbPromise>>

\* return Promise.resolve({status: "error", error}): nothing else is written.
returnsEarly(error) ==
    /\ result' = [status |-> "error", askForUpdates |-> "null", error |-> error]
    /\ UNCHANGED <<existingEvent, pc, chain, closure, detached, cbPromise, trace>>

onOkPressed ==
    /\ pc = "idle"
    /\ IF validationError # ""
       THEN returnsEarly(validationError)
       ELSE LET own == responseAttendee
                responded == IF own # 0
                             THEN <<callOf("sendResponse", <<existingEvent.attendees[own].address, going>>)>>
                             ELSE <<>>
            IN /\ existingEvent' = IF own # 0
                                   THEN [existingEvent EXCEPT !.attendees[own].status = going]
                                   ELSE existingEvent
               /\ detached' = IF own # 0 THEN detached \cup {"sendResponse"} ELSE detached
               /\ closure' = [newEvent |-> newEventOf,
                              newAlarms |-> alarms,
                              newAttendees |-> newAttendeesOf(existingEvent, attendees, mailAddresses),
                              existingAttendees |-> existingAttendeesOf(existingEvent, attendees, mailAddresses),
                              removedAttendees |-> removedAttendeesOf(existingEvent, attendees, mailAddresses)]
               /\ cbPromise' = cbPromise
               /\ IF asksForUpdates(existingEvent, attendees, mailAddresses)
                  THEN /\ result' = [status |-> "ok", askForUpdates |-> "callback", error |-> ""]
                       /\ pc' = "asked"
                       /\ chain' = chain
                       /\ trace' = trace \o responded
                  ELSE /\ result' = result
                       /\ pc' = "saving"
                       /\ chain' = [branch |-> "immediate",
                                    awaiting |-> doCreateEvent(existingEvent),
                                    sendOutUpdate |-> FALSE]
                       /\ trace' = trace \o responded \o <<callOf(doCreateEvent(existingEvent), <<>>)>>
    /\ UNCHANGED <<fixedVars, guestVars, timeVars, ruleVars, deletion>>

\* The confirmation callback returned as askForUpdates.
askForUpdates(sendOutUpdate) ==
    /\ pc = "asked"
    /\ pc' = "saving"
    /\ cbPromise' = "pending"
    /\ chain' = [branch |-> "callback", awaiting |-> doCreateEvent(existingEvent),
                 sendOutUpdate |-> sendOutUpdate]
    /\ trace' = Append(trace, callOf(doCreateEvent(existingEvent), <<>>))
    /\ UNCHANGED <<existingEvent, fixedVars, guestVars, timeVars, ruleVars, closure, detached, result, deletion>>

StoreCalls == {"createEvent", "updateEvent"}

\* Mutant: the callback sends the invitations before the updates.
nextCall_inviteFirst(c, cl) ==
    IF c.branch = "immediate"
    THEN IF c.awaiting \in StoreCalls /\ Len(cl.newAttendees) # 0 THEN "sendInvite" ELSE "none"
    ELSE IF c.awaiting \in StoreCalls /\ c.sendOutUpdate /\ Len(cl.newAttendees) # 0
         THEN "sendInvite"
         ELSE IF c.awaiting \in StoreCalls \cup {"sendInvite"}
                 /\ c.sendOutUpdate /\ Len(cl.existingAttendees) # 0
              THEN "sendUpdate"
              ELSE IF c.sendOutUpdate /\ Len(cl.removedAttendees) # 0
                   THEN "sendCancellation"
                   ELSE "none"

\* Mutant: the callback dispatches whatever the answer is.
nextCall_ignoresAnswer(c, cl) ==
    IF c.branch = "immediate"
    THEN IF c.awaiting \in StoreCalls /\ Len(cl.newAttendees) # 0 THEN "sendInvite" ELSE "none"
    ELSE IF c.awaiting \in StoreCalls /\ Len(cl.existingAttendees) # 0
         THEN "sendUpdate"
         ELSE IF c.awaiting \in StoreCalls \cup {"sendUpdate"} /\ Len(cl.newAttendees) # 0
              THEN "sendInvite"
              ELSE IF Len(cl.removedAttendees) # 0 THEN "sendCancellation" ELSE "none"

\* Mutant: the immediate branch sends the invitation even to nobody.
nextCall_alwaysInvites(c, cl) ==
    IF c.branch = "immediate"
    THEN IF c.awaiting \in StoreCalls THEN "sendInvite" ELSE "none"
    ELSE IF c.awaiting \in StoreCalls /\ c.sendOutUpdate /\ Len(cl.existingAttendees) # 0
         THEN "sendUpdate"
         ELSE IF c.awaiting \in StoreCalls \cup {"sendUpdate"}
                 /\ c.sendOutUpdate /\ Len(cl.newAttendees) # 0
              THEN "sendInvite"
              ELSE IF c.sendOutUpdate /\ Len(cl.removedAttendees) # 0
                   THEN "sendCancellation"
                   ELSE "none"

\* The distributor call the promise chain makes once the awaited call has
\* completed, "none" when the chain makes no further call.
nextCall(c, cl) ==
    IF c.branch = "immediate"
    THEN IF c.awaiting \in StoreCalls /\ Len(cl.newAttendees) # 0 THEN "sendInvite" ELSE "none"
    ELSE IF c.awaiting \in StoreCalls /\ c.sendOutUpdate /\ Len(cl.existingAttendees) # 0
         THEN "sendUpdate"
         ELSE IF c.awaiting \in StoreCalls \cup {"sendUpdate"}
                 /\ c.sendOutUpdate /\ Len(cl.newAttendees) # 0
              THEN "sendInvite"
              ELSE IF c.sendOutUpdate /\ Len(cl.removedAttendees) # 0
                   THEN "sendCancellation"
                   ELSE "none"

recipientsOf(op, cl) ==
    distributionAddresses(
        IF op = "sendUpdate" THEN cl.existingAttendees
        ELSE IF op = "sendInvite" THEN cl.newAttendees
        ELSE cl.removedAttendees)

\* The awaited collaborator call completes and the chain continues.
callSucceeds ==
    /\ pc = "saving"
    /\ LET next == nextCall(chain, closure)
           done == Append(trace, okOf(chain.awaiting))
       IN IF next = "none"
          THEN /\ trace' = done
               /\ pc' = "done"
               /\ chain' = [chain EXCEPT !.awaiting = "none"]
               /\ detached' = detached
               /\ IF chain.branch = "immediate"
                  THEN /\ result' = [status |-> "ok", askForUpdates |-> "null", error |-> ""]
                       /\ cbPromise' = cbPromise
                  ELSE /\ result' = result
                       /\ cbPromise' = "resolved"
          ELSE IF next = "sendCancellation"
          THEN \* the promise of sendCancellation is not returned to the chain
               /\ trace' = Append(done, callOf(next, recipientsOf(next, closure)))
               /\ pc' = "done"
               /\ chain' = [chain EXCEPT !.awaiting = "none"]
               /\ detached' = detached \cup {next}
               /\ result' = result
               /\ cbPromise' = "resolved"
          ELSE /\ trace' = Append(done, callOf(next, recipientsOf(next, closure)))
               /\ pc' = pc
               /\ chain' = [chain EXCEPT !.awaiting = next]
               /\ UNCHANGED <<detached, result, cbPromise>>
    /\ UNCHANGED <<existingEvent, fixedVars, guestVars, timeVars, ruleVars, closure, deletion>>

\* Mutant: the chain goes on to its next dispatch although the call failed.
callFails_dispatchesAnyway ==
    /\ pc = "saving"
    /\ LET next == nextCall(chain, closure)
       IN trace' = IF next = "none"
                   THEN Append(trace, failOf(chain.awaiting))
                   ELSE trace \o <<failOf(chain.awaiting),
                                   callOf(next, recipientsOf(next, closure))>>
    /\ pc' = "failed"
    /\ chain' = [chain EXCEPT !.awaiting = "none"]
    /\ IF chain.branch = "immediate"
       THEN /\ result' = [status |-> "rejected", askForUpdates |-> "null", error |-> chain.awaiting]
            /\ cbPromise' = cbPromise
       ELSE /\ result' = result
            /\ cbPromise' = "rejected"
    /\ UNCHANGED <<existingEvent, fixedVars, guestVars, timeVars, ruleVars, closure, detached, deletion>>

\* The awaited collaborator call fails and the chain rejects.
callFails ==
    /\ pc = "saving"
    /\ trace' = Append(trace, failOf(chain.awaiting))
    /\ pc' = "failed"
    /\ chain' = [chain EXCEPT !.awaiting = "none"]
    /\ IF chain.branch = "immediate"
       THEN /\ result' = [status |-> "rejected", askForUpdates |-> "null", error |-> chain.awaiting]
            /\ cbPromise' = cbPromise
       ELSE /\ result' = result
            /\ cbPromise' = "rejected"
    /\ UNCHANGED <<existingEvent, fixedVars, guestVars, timeVars, ruleVars, closure, detached, deletion>>

\* A call whose promise nobody awaits completes or fails.
detachedSettles(op, ok) ==
    /\ op \in detached
    /\ detached' = detached \ {op}
    /\ trace' = Append(trace, IF ok THEN okOf(op) ELSE failOf(op))
    /\ UNCHANGED <<existingEvent, fixedVars, guestVars, timeVars, ruleVars, pc, chain, closure, result, cbPromise, deletion>>

-----------------------------------------------------------------------------
\* Deletion.
NotFoundError == "NotFoundError"
OtherError == "Error"
Failures == {NotFoundError, OtherError}

failWith(op, error) == [kind |-> "fail", op |-> op, to |-> <<error>>]

\* Mutant: a cancellation is sent whatever the classification is.
sendsCancellationOnDelete_anyType(type, ev) == Len(ev.attendees) # 0

\* deleteEvent: the condition under which the guests are told first.
sendsCancellationOnDelete(type, ev) == type = OWN /\ Len(ev.attendees) # 0

\* Mutant: the handler of deleteEvent swallows every failure.
caughtOnDelete_everything(error) == TRUE

\* deleteEvent: the failures the handler at the end of the chain swallows.
caughtOnDelete(error) == error = NotFoundError

deleteCall(op, ev) ==
    IF op = "sendCancellation"
    THEN callOf(op, distributionAddresses(ev.attendees))
    ELSE callOf(op, <<ev.id>>)

deleteEvent ==
    /\ pc = "idle"
    /\ IF existingEvent.exists
       THEN LET first == IF sendsCancellationOnDelete(eventType, existingEvent)
                         THEN "sendCancellation"
                         ELSE "deleteEvent"
            IN /\ pc' = "deleting"
               /\ chain' = [branch |-> "delete", awaiting |-> first, sendOutUpdate |-> FALSE]
               /\ trace' = Append(trace, deleteCall(first, existingEvent))
               /\ deletion' = [status |-> "pending", error |-> ""]
       ELSE /\ pc' = "deleted"
            /\ chain' = chain
            /\ trace' = trace
            /\ deletion' = [status |-> "resolved", error |-> ""]
    /\ UNCHANGED <<existingEvent, fixedVars, guestVars, timeVars, ruleVars, closure, detached, result, cbPromise>>

\* deleteEvent: the deletion is chained with then() on the cancellation,
\* so it runs only when the cancellation has completed.
thenDeletes(ok) == ok

\* The call deleteEvent awaits completes.
deleteCallSucceeds ==
    /\ pc = "deleting"
    /\ IF chain.awaiting = "sendCancellation" /\ thenDeletes(TRUE)
       THEN /\ trace' = trace \o <<okOf(chain.awaiting), deleteCall("deleteEvent", existingEvent)>>
            /\ chain' = [chain EXCEPT !.awaiting = "deleteEvent"]
            /\ UNCHANGED <<pc, deletion>>
       ELSE /\ trace' = Append(trace, okOf(chain.awaiting))
            /\ chain' = [chain EXCEPT !.awaiting = "none"]
            /\ pc' = "deleted"
            /\ deletion' = [status |-> "resolved", error |-> ""]
    /\ UNCHANGED <<existingEvent, fixedVars, guestVars, timeVars, ruleVars, closure, detached, result, cbPromise>>

\* The call deleteEvent awaits fails: the then() step is skipped and the
\* handler at the end of the chain sees the failure.
deleteCallFails(error) ==
    /\ pc = "deleting"
    /\ IF chain.awaiting = "sendCancellation" /\ thenDeletes(FALSE)
       THEN /\ trace' = trace \o <<failWith(chain.awaiting, error),
                                   deleteCall("deleteEvent", existingEvent)>>
            /\ chain' = [chain EXCEPT !.awaiting = "deleteEvent"]
            /\ UNCHANGED <<pc, deletion>>
       ELSE /\ trace' = Append(trace, failWith(chain.awaiting, error))
            /\ chain' = [chain EXCEPT !.awaiting = "none"]
            /\ IF caughtOnDelete(error)
               THEN /\ pc' = "deleted"
                    /\ deletion' = [status |-> "resolved", error |-> ""]
               ELSE /\ pc' = "deleteFailed"
                    /\ deletion' = [status |-> "rejected", error |-> error]
    /\ UNCHANGED <<existingEvent, fixedVars, guestVars, timeVars, ruleVars, closure, detached, result, cbPromise>>

-----------------------------------------------------------------------------
\* Initial states: the view-model right after construction.
PersonalCalendars == [c \in {calendarGroupId} |-> [shared |-> FALSE]]
SharedCalendars == [c \in {calendarGroupId} |-> [shared |-> TRUE]]

\* Attendees an event handed to the constructor may carry.
InitAttendees ==
    {createCalendarEventAttendee(OwnAddresses[1], st) : st \in {NEEDS_ACTION, ACCEPTED}}
    \cup {createCalendarEventAttendee(OwnAddresses[2], NEEDS_ACTION)}
    \cup {createCalendarEventAttendee(g, NEEDS_ACTION) : g \in GuestAddresses}

\* Guests are interchangeable: a list names them in the order a, b, c.
guestsInOrder(l) ==
    \A k \in 2..Len(GuestOrder) :
        hasAddress(l, GuestOrder[k]) =>
            /\ hasAddress(l, GuestOrder[k - 1])
            /\ findByAddress(l, GuestOrder[k - 1]) < findByAddress(l, GuestOrder[k])

InitAttendeeLists ==
    {l \in UNION {[1..n -> InitAttendees] : n \in 0..MaxExistingAttendees} : guestsInOrder(l)}

Organizers == {NULL, OwnAddresses[1], OtherOrganizer}

\* A stored event has an id and an owner group. A copy of an invitation is
\* organized by somebody else.
StoredEvents(lists) ==
    {createCalendarEvent(l, org, FALSE, calendarGroupId, "eventId", <<9>>,
                         dayStart(2) + 12 * Hour, dayStart(2) + 13 * Hour) :
        l \in lists, org \in Organizers}
    \cup {createCalendarEvent(l, OtherOrganizer, TRUE, calendarGroupId, "eventId", <<9>>,
                              dayStart(2) + 12 * Hour, dayStart(2) + 13 * Hour) : l \in lists}

\* An event parsed from a file has neither id nor owner group;
\* showEventDetailsFromFile marks it as a copy before it opens it.
FileEvents(lists) ==
    {createCalendarEvent(l, OtherOrganizer, TRUE, NULL, NULL, <<0>>,
                         dayStart(2) + 12 * Hour, dayStart(2) + 13 * Hour) : l \in lists}

Init ==
    \E ev \in {NoEvent} \cup StoredEvents(InitAttendeeLists) \cup FileEvents(InitAttendeeLists) :
        constructor(ev, PersonalCalendars, CapNone, OwnAddresses)

\* Dates picked in the date picker: yesterday and today.
Days == {dayStart(1), dayStart(2)}

\* Addresses typed into the guest field: the viewer's main address and the guests.
NewGuests == {OwnAddresses[1]} \cup GuestAddresses

Next ==
    \/ \E a \in NewGuests : addAttendee(a)
    \/ \E a \in Addresses : removeAttendee(a)
    \/ \E st \in Statuses : selectGoing(st)
    \/ onOkPressed
    \/ \E b \in BOOLEAN : askForUpdates(b)
    \/ callSucceeds
    \/ callFails
    \/ \E op \in {"sendResponse", "sendCancellation"}, ok \in BOOLEAN : detachedSettles(op, ok)

Spec == Init /\ [][Next]_vars

-----------------------------------------------------------------------------
\* Dates, times and repeat rules of a new event, a timed event, an all-day
\* event and an all-day event that repeats until a date; no guests.
TimedEvent ==
    createCalendarEvent(<<>>, NULL, FALSE, calendarGroupId, "eventId", <<9>>,
                        dayStart(2) + 12 * Hour, dayStart(2) + 13 * Hour)

AllDayEvent ==
    createCalendarEvent(<<>>, NULL, FALSE, calendarGroupId, "eventId", <<1>>,
                        getAllDayDateUTCFromZone(dayStart(2)),
                        getAllDayDateUTCFromZone(dayStart(3)))

RepeatingEvent ==
    [AllDayEvent EXCEPT !.repeatRule =
        [exists |-> TRUE, frequency |-> DAILY, interval |-> 1, endType |-> UntilDate,
         endValue |-> getAllDayDateUTCFromZone(dayStart(4))]]

\* Events that repeat a number of times; the stored count may not be a number.
CountingEvents ==
    {[TimedEvent EXCEPT !.repeatRule =
        [exists |-> TRUE, frequency |-> DAILY, interval |-> 1, endType |-> Count,
         endValue |-> n]] : n \in {NaN, 2}}

InitTime ==
    \E ev \in {NoEvent, TimedEvent, AllDayEvent, RepeatingEvent} \cup CountingEvents :
        constructor(ev, PersonalCalendars, CapNone, OwnAddresses)

\* Dates picked in a date picker: none, the last day of 1969, tomorrow-but-one and yesterday.
PickedDates == {{}} \cup {{dayStart(d)} : d \in {-1, 1, 3}}

\* Time texts typed into a time field; the last one does not parse.
TimeTexts == {timeText(10, 0), timeText(23, 30), timeText(24, 0)}

\* Counts selected for a rule that ends after a count.
Occurrences == {0, 3}

NextTime ==
    \/ \E d \in PickedDates : onStartDateSelected(d)
    \/ \E d \in Days : onEndDateSelected(d)
    \/ \E t \in TimeTexts : onStartTimeSelected(t)
    \/ \E t \in TimeTexts : onEndTimeSelected(t)
    \/ \E b \in BOOLEAN : setAllDay(b)
    \/ \E p \in {NULL, DAILY} : onRepeatPeriodSelected(p)
    \/ \E t \in EndType : onRepeatEndTypeChanged(t)
    \/ \E n \in Occurrences : onEndOccurencesSelected(n)
    \/ \E d \in PickedDates : onRepeatEndDateSelected(d)
    \/ onOkPressed
    \/ callSucceeds
    \/ callFails

SpecTime == InitTime /\ [][NextTime]_vars

-----------------------------------------------------------------------------
\* Events in personal, shared and unknown calendars, with every capability:
\* guest edits, saves and deletions on events with at most one attendee.
Capabilities == {CapNone, CapRead, CapWrite, CapInvite}

PermAttendeeLists == {l \in InitAttendeeLists : Len(l) <= 1}

PermEvents ==
    {createCalendarEvent(l, org, copy, owner, IF owner = NULL THEN NULL ELSE "eventId", <<1>>,
                         dayStart(2) + 12 * Hour, dayStart(2) + 13 * Hour) :
        l \in PermAttendeeLists, org \in Organizers, copy \in BOOLEAN,
        owner \in {NULL, calendarGroupId, "1"}}

InitPerm ==
    \E ev \in {NoEvent} \cup PermEvents, cals \in {PersonalCalendars, SharedCalendars},
       cap \in Capabilities :
        constructor(ev, cals, cap, OwnAddresses)

NextPerm ==
    \/ \E a \in NewGuests : addAttendee(a)
    \/ \E a \in Addresses : removeAttendee(a)
    \/ \E st \in Statuses : selectGoing(st)
    \/ onOkPressed
    \/ \E b \in BOOLEAN : askForUpdates(b)
    \/ callSucceeds
    \/ callFails
    \/ \E op \in {"sendResponse", "sendCancellation"}, ok \in BOOLEAN : detachedSettles(op, ok)
    \/ deleteEvent
    \/ deleteCallSucceeds
    \/ \E error \in Failures : deleteCallFails(error)

SpecPerm == InitPerm /\ [][NextPerm]_vars

\* Guest and end date edits of events of the personal calendar that have at
\* most one attendee, then saved.
InitGuests ==
    \E ev \in {NoEvent} \cup StoredEvents(PermAttendeeLists) :
        constructor(ev, PersonalCalendars, CapNone, OwnAddresses)

NextGuests ==
    \/ \E a \in NewGuests : addAttendee(a)
    \/ \E a \in Addresses : removeAttendee(a)
    \/ \E st \in Statuses : selectGoing(st)
    \/ \E d \in Days : onEndDateSelected(d)
    \/ onOkPressed
    \/ \E b \in BOOLEAN : askForUpdates(b)
    \/ callSucceeds
    \/ callFails

SpecGuests == InitGuests /\ [][NextGuests]_vars

\* Events opened from the calendar with their stored alarms, and events
\* opened from a calendar file, saved without an edit of dates or times.
OpenedEvents ==
    {createCalendarEvent(<<>>, NULL, FALSE, calendarGroupId, "eventId", <<1>>, t[1], t[2]) :
        t \in {<<dayStart(2) + 12 * Hour, dayStart(2) + 13 * Hour>>,
               <<dayStart(2) + 23 * Hour + 30 * Minute, dayStart(3) + 15 * Minute>>,
               <<dayStart(1) + 9 * Hour, dayStart(3) + 17 * Hour>>,
               <<dayStart(2) + 12 * Hour + 30, dayStart(2) + 13 * Hour + 59>>,
               <<getAllDayDateUTCFromZone(dayStart(2)), getAllDayDateUTCFromZone(dayStart(3))>>,
               <<getAllDayDateUTCFromZone(dayStart(1)), getAllDayDateUTCFromZone(dayStart(4))>>}}

\* Alarms the store holds for an opened event.
StoredAlarms == {<<>>, <<"10M">>}

\* The downloaded file: unparsable, without an event, or with one event
\* that has a UID or none. A parsed event has neither id nor owner group.
ParsedEvents ==
    {createCalendarEvent(l, OtherOrganizer, FALSE, NULL, NULL, <<0>>,
                         dayStart(2) + 12 * Hour, dayStart(2) + 13 * Hour) :
        l \in PermAttendeeLists}

FileData ==
    {[parses |-> FALSE, contents |-> <<>>], [parses |-> TRUE, contents |-> <<>>]}
    \cup {[parses |-> TRUE, contents |-> <<[event |-> ev, uid |-> uid]>>] :
            ev \in ParsedEvents, uid \in {NULL, "uid"}}

\* What getEventByUid finds: nothing, the viewer's own event with a guest,
\* or the stored copy of the invitation.
EventsByUid ==
    {NoEvent,
     createCalendarEvent(<<createCalendarEventAttendee(GuestOrder[1], NEEDS_ACTION)>>,
                         OwnAddresses[1], FALSE, calendarGroupId, "eventId", <<1>>,
                         dayStart(2) + 12 * Hour, dayStart(2) + 13 * Hour),
     createCalendarEvent(<<createCalendarEventAttendee(OwnAddresses[1], ACCEPTED)>>,
                         OtherOrganizer, TRUE, calendarGroupId, "eventId", <<1>>,
                         dayStart(2) + 12 * Hour, dayStart(2) + 13 * Hour)}

InitOpen ==
    \/ \E ev \in OpenedEvents, stored \in StoredAlarms :
          constructorFor(ev, PersonalCalendars, CapNone, OwnAddresses, stored, FromCalendar)
    \/ \E fileData \in FileData, byUid \in EventsByUid :
          showEventDetailsFromFile(fileData, byUid, PersonalCalendars, CapNone, OwnAddresses)

NextOpen ==
    \/ loadAlarmsCompletes
    \/ \E trigger \in AlarmTriggers : addAlarm(trigger)
    \/ onOkPressed
    \/ \E b \in BOOLEAN : askForUpdates(b)
    \/ callSucceeds
    \/ callFails

SpecOpen == InitOpen /\ [][NextOpen]_vars

\* Alarms and guests added to events of every calendar and capability, then saved.
NextAlarm ==
    \/ \E trigger \in AlarmTriggers : addAlarm(trigger)
    \/ \E a \in NewGuests : addAttendee(a)
    \/ \E st \in Statuses : selectGoing(st)
    \/ onOkPressed
    \/ \E b \in BOOLEAN : askForUpdates(b)
    \/ callSucceeds
    \/ callFails

SpecAlarm == InitPerm /\ [][NextAlarm]_vars

-----------------------------------------------------------------------------
\* Vocabulary of the properties.
calls(tr) == SelectSeq(tr, LAMBDA e : e.kind = "call")
callsOf(tr, op) == SelectSeq(tr, LAMBDA e : e.kind = "call" /\ e.op = op)
isPrefix(a, b) == Len(a) <= Len(b) /\ SubSeq(b, 1, Len(a)) = a
addressSet(list) == {list[i].address : i \in DOMAIN list}
elements(seq) == {seq[i] : i \in DOMAIN seq}

GuestCalls == {"sendInvite", "sendUpdate", "sendCancellation"}
DistributorCalls == GuestCalls \cup {"sendResponse"}

\* A save has passed validation and assembled the event.
assembled == closure.newEvent.exists

\* The attendee sets as the specification defines them: the attendees are
\* frozen from the save on, and the addresses of the existing event never change.
ownSet == elements(mailAddresses)
priorSet == IF existingEvent.exists THEN addressSet(existingEvent.attendees) ELSE {}
currentSet == addressSet(attendees)
newSet == (currentSet \ priorSet) \ ownSet
retainedSet == (currentSet \cap priorSet) \ ownSet
removedSet == (priorSet \ currentSet) \ ownSet

\* Every call made after the first one directly follows the completion of the call before it.
eachCallAfterCompletion ==
    \A p \in 2..Len(trace) :
        trace[p].kind = "call" =>
            /\ trace[p - 1].kind = "ok"
            /\ p > 2
            /\ trace[p - 2].kind = "call"
            /\ trace[p - 2].op = trace[p - 1].op

persistCall == callOf(doCreateEvent(existingEvent), <<>>)

optionalCall(op, guests) ==
    IF Len(guests) # 0 THEN <<callOf(op, distributionAddresses(guests))>> ELSE <<>>

\* C1: after the confirmation callback is invoked with true, the calls of the
\* save are, in this order, the store persist, sendUpdate to the retained
\* guests, sendInvite to the new guests and sendCancellation to the removed
\* guests, each dispatch made only for a non-empty set and only once the call
\* before it has completed.
C1_ConfirmedDispatchOrder ==
    (chain.branch = "callback" /\ chain.sendOutUpdate) =>
        LET expected == <<persistCall>>
                        \o optionalCall("sendUpdate", closure.existingAttendees)
                        \o optionalCall("sendInvite", closure.newAttendees)
                        \o optionalCall("sendCancellation", closure.removedAttendees)
        IN /\ isPrefix(calls(trace), expected)
           /\ pc = "done" => calls(trace) = expected
           /\ eachCallAfterCompletion
           /\ addressSet(closure.existingAttendees) = retainedSet
           /\ addressSet(closure.newAttendees) = newSet
           /\ addressSet(closure.removedAttendees) = removedSet

\* Scenario C: guests [old, toRemove] before, [old, new] now, updates confirmed.
W_C1_AllThreeDispatched ==
    /\ pc = "done"
    /\ chain.branch = "callback" /\ chain.sendOutUpdate
    /\ calls(trace) = <<callOf("updateEvent", <<>>), callOf("sendUpdate", <<"a">>),
                        callOf("sendInvite", <<"c">>), callOf("sendCancellation", <<"b">>)>>

\* C2: after the confirmation callback is invoked with false, the event is
\* persisted exactly once and no sendUpdate, sendInvite or sendCancellation
\* call is made, whatever the three sets are.
C2_DeclinedPersistsOnly ==
    (chain.branch = "callback" /\ ~chain.sendOutUpdate) =>
        /\ calls(trace) = <<persistCall>>
        /\ \A i \in DOMAIN trace : trace[i].op \notin DistributorCalls

W_C2_DeclinedWithAllSets ==
    /\ pc = "done"
    /\ chain.branch = "callback" /\ ~chain.sendOutUpdate
    /\ cbPromise = "resolved"
    /\ newSet # {} /\ retainedSet # {} /\ removedSet # {}

\* C3: once the event is assembled with the viewer as organizer and a
\* non-empty retained or removed set, onOkPressed returns {status: ok,
\* askForUpdates: callback}, and no store or distributor call is made until
\* that callback is invoked.
C3_AsksBeforeAnyCall ==
    (assembled /\ viewingOwnEvent /\ (retainedSet # {} \/ removedSet # {})) =>
        /\ result = [status |-> "ok", askForUpdates |-> "callback", error |-> ""]
        /\ chain.branch # "immediate"
        /\ pc = "asked" <=> chain.branch = "none"
        /\ pc = "asked" => trace = <<>> /\ detached = {} /\ cbPromise = "none"

W_C3_AskedOnlyRemoved ==
    /\ pc = "asked"
    /\ viewingOwnEvent
    /\ retainedSet = {} /\ removedSet # {}

\* C4: once the event is assembled with the viewer as organizer and empty
\* retained and removed sets, onOkPressed persists the event exactly once,
\* then calls sendInvite with exactly the new set if and only if that set is
\* non-empty, calls neither sendUpdate nor sendCancellation and returns
\* {status: ok, askForUpdates: null}.
C4_ImmediateSave ==
    (assembled /\ viewingOwnEvent /\ retainedSet = {} /\ removedSet = {}) =>
        LET expected == <<persistCall>> \o optionalCall("sendInvite", closure.newAttendees)
        IN /\ chain.branch = "immediate"
           /\ isPrefix(calls(trace), expected)
           /\ Len(calls(trace)) >= 1
           /\ eachCallAfterCompletion
           /\ addressSet(closure.newAttendees) = newSet
           /\ pc = "done" =>
                /\ calls(trace) = expected
                /\ result = [status |-> "ok", askForUpdates |-> "null", error |-> ""]
           /\ result.askForUpdates = "null"

W_C4_InvitedNewGuests ==
    /\ pc = "done"
    /\ viewingOwnEvent
    /\ existingEvent.exists
    /\ calls(trace) = <<callOf("updateEvent", <<>>), callOf("sendInvite", <<"a", "b">>)>>
    /\ result.status = "ok"

noCallOf(ops) == \A i \in DOMAIN trace : trace[i].op \notin ops

okNull == [status |-> "ok", askForUpdates |-> "null", error |-> ""]

\* C5 as stated: with no existing event and no attendees at save time,
\* onOkPressed always returns {status: ok, askForUpdates: null} and calls
\* createEvent exactly once, after any sequence of edit operations.
C5_AlwaysOkAsStated ==
    (~existingEvent.exists /\ attendees = <<>> /\ result.status \in {"ok", "error"}) =>
        /\ result = okNull
        /\ Len(callsOf(trace, "createEvent")) = 1
        /\ noCallOf({"sendUpdate", "sendCancellation"})

\* C5 (amended): with no existing event and no attendees at save time,
\* whenever the edited dates and times pass validation onOkPressed calls
\* createEvent exactly once, makes no other call and returns {status: ok,
\* askForUpdates: null} once createEvent has completed; when validation fails
\* it returns an error result and makes no call.
C5_NewEventNoGuests ==
    (~existingEvent.exists /\ attendees = <<>>) =>
        /\ assembled =>
            /\ calls(trace) = <<callOf("createEvent", <<>>)>>
            /\ chain.branch = "immediate"
            /\ pc = "done" <=> result = okNull
        /\ ~assembled => trace = <<>> /\ result.status \in {"none", "error"}

W_C5_Created ==
    /\ ~existingEvent.exists /\ attendees = <<>>
    /\ pc = "done"
    /\ result = okNull
    /\ trace = <<callOf("createEvent", <<>>), okOf("createEvent")>>

\* C6 as stated: when the new, retained and removed lists of a save are all
\* empty, onOkPressed makes no distributor call at all, sendResponse
\* included, whether or not the viewer is organizer.
C6_NoCallAsStated ==
    (assembled /\ closure.newAttendees = <<>> /\ closure.existingAttendees = <<>>
        /\ closure.removedAttendees = <<>>) => noCallOf(DistributorCalls)

\* C6 (amended): when the new, retained and removed lists of a save are all
\* empty, onOkPressed makes no sendInvite, sendUpdate or sendCancellation
\* call, whether or not the viewer is organizer; it makes a sendResponse
\* call only when the viewer is not organizer.
C6_NoGuestDispatch ==
    (assembled /\ closure.newAttendees = <<>> /\ closure.existingAttendees = <<>>
        /\ closure.removedAttendees = <<>>) =>
        /\ noCallOf(GuestCalls)
        /\ viewingOwnEvent => noCallOf(DistributorCalls)
        /\ newSet = {} \/ ~viewingOwnEvent

W_C6_OnlySelfPresent ==
    /\ pc = "done"
    /\ viewingOwnEvent
    /\ existingEvent.exists
    /\ attendees # <<>>
    /\ newSet = {} /\ retainedSet = {} /\ removedSet = {}
    /\ calls(trace) = <<callOf("updateEvent", <<>>)>>

\* C7: when the viewer is organizer the diff computed by onOkPressed is
\* new = current addresses not in prior and not own, retained = current
\* addresses in prior and not own, removed = prior addresses not in current
\* and not own; the three are pairwise disjoint by address, none contains an
\* own address, and with no existing event retained and removed are empty.
C7_AttendeeDiff ==
    (assembled /\ viewingOwnEvent) =>
        LET new == addressSet(closure.newAttendees)
            retained == addressSet(closure.existingAttendees)
            removed == addressSet(closure.removedAttendees)
        IN /\ new = {a \in currentSet : a \notin priorSet /\ a \notin ownSet}
           /\ retained = {a \in currentSet : a \in priorSet /\ a \notin ownSet}
           /\ removed = {a \in priorSet : a \notin currentSet /\ a \notin ownSet}
           /\ new \cap retained = {} /\ new \cap removed = {} /\ retained \cap removed = {}
           /\ (new \cup retained \cup removed) \cap ownSet = {}
           /\ ~existingEvent.exists => retained = {} /\ removed = {}

W_C7_OwnAddressOnBothSides ==
    /\ assembled /\ viewingOwnEvent
    /\ closure.newAttendees # <<>> /\ closure.removedAttendees # <<>>
    /\ ownSet \cap currentSet # {} /\ ownSet \cap priorSet # {}
    /\ ownSet \cap priorSet # ownSet \cap currentSet

\* The viewer's entry in the last-saved attendee list, 0 when there is none.
savedOwnAttendee == findOwnAttendeeOf(persistedEvent.attendees, mailAddresses)

\* C8: once the event is assembled with the viewer not organizer,
\* onOkPressed sends exactly one sendResponse, carrying the viewer's attendee
\* address and the new status, if and only if the viewer appears in the
\* last-saved attendee list and the selected status is not needs-action and
\* differs from the last-saved status; the response is sent before the event
\* is persisted, the result is {status: ok, askForUpdates: null} and no
\* sendInvite, sendUpdate or sendCancellation is made.
C8_ResponseOfGuest ==
    (assembled /\ ~viewingOwnEvent) =>
        LET sent == callsOf(trace, "sendResponse")
            own == savedOwnAttendee
            due == /\ own # 0
                   /\ going # NEEDS_ACTION
                   /\ persistedEvent.attendees[own].status # going
        IN /\ Len(sent) = (IF due THEN 1 ELSE 0)
           /\ due => /\ trace[1] = callOf("sendResponse",
                                          <<persistedEvent.attendees[own].address, going>>)
                     /\ trace[2].kind = "call" /\ trace[2].op \in StoreCalls
           /\ Len(SelectSeq(calls(trace), LAMBDA e : e.op \in StoreCalls)) = 1
           /\ noCallOf(GuestCalls)
           /\ chain.branch = "immediate"
           /\ result.askForUpdates = "null"
           /\ pc = "done" <=> result = okNull

W_C8_ResponseSent ==
    /\ pc = "done"
    /\ ~viewingOwnEvent
    /\ result = okNull
    /\ callsOf(trace, "sendResponse") = <<callOf("sendResponse", <<"me", ACCEPTED>>)>>
    /\ Len(attendees) = 2

\* C9: saving an existing event that has no persisted id (an invitation
\* opened from a file) persists it with createEvent and not with
\* updateEvent; saving a stored event persists it with updateEvent.
C9_CreateWhenNotStored ==
    \A i \in DOMAIN trace :
        (trace[i].kind = "call" /\ trace[i].op \in StoreCalls) =>
            trace[i].op = (IF existingEvent.exists /\ existingEvent.id # NULL
                           THEN "updateEvent"
                           ELSE "createEvent")

\* C10: the classification computed at construction follows the first-match
\* rules: no existing event gives OWN; an owning calendar that is not in the
\* calendar map gives INVITE; a shared owning calendar gives SHARED_RW with
\* Write capability and SHARED_RO without; a personal owning calendar gives
\* INVITE for a copy and OWN otherwise.
C10_Classification ==
    eventType =
        CASE ~existingEvent.exists -> OWN
          [] existingEvent.exists /\ existingEvent.ownerGroup \notin DOMAIN calendars -> INVITE
          [] existingEvent.exists /\ existingEvent.ownerGroup \in DOMAIN calendars
                /\ calendars[existingEvent.ownerGroup].shared
                /\ capability >= CapWrite -> SHARED_RW
          [] existingEvent.exists /\ existingEvent.ownerGroup \in DOMAIN calendars
                /\ calendars[existingEvent.ownerGroup].shared
                /\ capability < CapWrite -> SHARED_RO
          [] existingEvent.exists /\ existingEvent.ownerGroup \in DOMAIN calendars
                /\ ~calendars[existingEvent.ownerGroup].shared
                /\ existingEvent.isCopy -> INVITE
          [] OTHER -> OWN

W_C10_CopyInWritableSharedCalendar ==
    /\ eventType = SHARED_RW
    /\ existingEvent.isCopy
    /\ capability = CapInvite
    /\ attendees # existingEvent.attendees

-----------------------------------------------------------------------------
\* Permissions and deletion.

\* The owning calendar of the event handed to the constructor:
\* "none" when the calendar map has no entry for its owner group.
owningCalendar ==
    IF persistedEvent.exists /\ persistedEvent.ownerGroup \in DOMAIN calendars
    THEN IF calendars[persistedEvent.ownerGroup].shared THEN "shared" ELSE "personal"
    ELSE "none"

ownOrInvite == eventType \in {OWN, INVITE}
isCopyOfInvite == existingEvent.exists /\ existingEvent.isCopy
ownAddressPresent == \E i \in DOMAIN attendees : attendees[i].address \in ownSet

\* C11: the classification never changes after construction: after every
\* sequence of guest edits, of saves and of deletions it is the value
\* computed from whether an event was handed over, the shared flag of its
\* owning calendar, the viewer's capability and the copy flag, as they were
\* at construction.
C11_ClassificationStable ==
    eventType =
        IF ~persistedEvent.exists THEN OWN
        ELSE IF owningCalendar = "none" THEN INVITE
        ELSE IF owningCalendar = "shared"
             THEN (IF capability >= CapWrite THEN SHARED_RW ELSE SHARED_RO)
             ELSE (IF persistedEvent.isCopy THEN INVITE ELSE OWN)

W_C11_AfterEditsAndSave ==
    /\ pc \in {"done", "deleted"}
    /\ eventType = INVITE
    /\ owningCalendar = "none"
    /\ attendees # persistedEvent.attendees
    /\ trace # <<>>

C14_OrganizerFollowsSavedGuests ==
    (pc = "idle" /\ eventType = OWN /\ ~isCopyOfInvite) =>
        (canModifyOrganizer <=> (~existingEvent.exists \/ Len(existingEvent.attendees) = 0))

\* C15: for an existing event that is not a copy and has no guests, in a
\* shared calendar: with Write capability canModifyOrganizer() is true and
\* possibleOrganizers is the existing organizer followed by the viewer's own
\* addresses; with only Read capability canModifyOrganizer() is false.
C15_OrganizerInSharedCalendar ==
    (/\ existingEvent.exists
     /\ ~existingEvent.isCopy
     /\ owningCalendar = "shared"
     /\ Len(existingEvent.attendees) = 0
     /\ Len(attendees) = 0) =>
        /\ capability >= CapWrite =>
              /\ canModifyOrganizer
              /\ possibleOrganizers =
                   (IF existingEvent.organizer # NULL THEN <<existingEvent.organizer>> ELSE <<>>)
                   \o mailAddresses
        /\ capability = CapRead => ~canModifyOrganizer

\* C16: for every existing event that is a copy, in any calendar and with any
\* capability, canModifyGuests() and canModifyOrganizer() are false and, when
\* the event has an organizer, possibleOrganizers is that one address;
\* canModifyGuests() is true only for OWN or INVITE events that are not copies.
C16_CopiesKeepGuestsAndOrganizer ==
    /\ isCopyOfInvite =>
          /\ ~canModifyGuests
          /\ ~canModifyOrganizer
          /\ existingEvent.organizer # NULL => possibleOrganizers = <<existingEvent.organizer>>
    /\ canModifyGuests => (ownOrInvite /\ ~isCopyOfInvite)

W_C16_CopyWithEmptiedList ==
    /\ isCopyOfInvite
    /\ eventType = INVITE
    /\ owningCalendar = "personal"
    /\ existingEvent.organizer # NULL
    /\ Len(existingEvent.attendees) = 1
    /\ attendees = <<>>

\* C17: canModifyOwnAttendance() is true exactly when the classification is
\* OWN or INVITE and the viewer either is organizer-equivalent (no existing
\* event, or a non-copy whose organizer is absent or one of the viewer's
\* addresses) or has one of its addresses in the current attendee list; it
\* is false for every event in a shared calendar.
C17_OwnAttendance ==
    /\ canModifyOwnAttendance <=>
          /\ ownOrInvite
          /\ \/ ~existingEvent.exists
             \/ ~existingEvent.isCopy
                  /\ (existingEvent.organizer = NULL \/ existingEvent.organizer \in ownSet)
             \/ ownAddressPresent
    /\ owningCalendar = "shared" => ~canModifyOwnAttendance

W_C17_GuestOfSomebodyElse ==
    /\ canModifyOwnAttendance
    /\ eventType = INVITE
    /\ existingEvent.organizer = OtherOrganizer
    /\ \A i \in DOMAIN existingEvent.attendees : existingEvent.attendees[i].address \notin ownSet
    /\ ownAddressPresent

\* The deletion has called a collaborator.
deleting == chain.branch = "delete"

failedCalls(op) == {i \in DOMAIN trace : trace[i].kind = "fail" /\ trace[i].op = op}

\* The cancellation of a deletion goes to every attendee of the existing event.
cancellationOnDelete ==
    callOf("sendCancellation", [i \in DOMAIN existingEvent.attendees |->
                                    existingEvent.attendees[i].address])

\* C18: deleteEvent on an existing event calls the store's deleteEvent once,
\* with that event; it calls sendCancellation once, with the addresses of all
\* the attendees of the event, exactly when the classification is OWN and the
\* event has at least one attendee, and the deletion follows the cancellation;
\* invites, events in shared calendars and events without attendees are
\* deleted without a cancellation.
C18_DeleteNotifiesGuestsOfOwnEvent ==
    deleting =>
        LET cancels == eventType = OWN /\ Len(existingEvent.attendees) >= 1
            expected == (IF cancels THEN <<cancellationOnDelete>> ELSE <<>>)
                        \o <<callOf("deleteEvent", <<existingEvent.id>>)>>
        IN /\ calls(trace) # <<>>
           /\ isPrefix(calls(trace), expected)
           /\ (chain.awaiting # "sendCancellation" /\ failedCalls("sendCancellation") = {})
                 => calls(trace) = expected

W_C18_CancelledThenDeleted ==
    /\ pc = "deleted"
    /\ Len(calls(trace)) = 2
    /\ attendees = <<>>
    /\ failedCalls("deleteEvent") = {}

\* C19: in deleteEvent the store's deleteEvent is called only after
\* sendCancellation has completed; when sendCancellation fails, with any
\* failure, the store's deleteEvent is never called and the promise
\* deleteEvent returned fails with that failure.
C19_CancellationFailurePropagates ==
    deleting =>
        /\ \A i \in DOMAIN trace :
              (trace[i].kind = "call" /\ trace[i].op = "deleteEvent" /\ i > 1) =>
                  trace[i - 1] = okOf("sendCancellation")
        /\ \A i \in failedCalls("sendCancellation") :
              /\ callsOf(trace, "deleteEvent") = <<>>
              /\ pc = "deleteFailed"
              /\ deletion.status = "rejected"
              /\ deletion.error = trace[i].to[1]

\* C20: when the store's deleteEvent fails with a not-found failure the
\* promise deleteEvent returned succeeds; when it fails with any other
\* failure the promise fails with that failure.
C20_NotFoundOnDeleteIsSuccess ==
    deleting =>
        \A i \in failedCalls("deleteEvent") :
            IF trace[i].to[1] = NotFoundError
            THEN pc = "deleted" /\ deletion.status = "resolved"
            ELSE pc = "deleteFailed" /\ deletion.status = "rejected"
                 /\ deletion.error = trace[i].to[1]

W_C20_AlreadyDeleted ==
    /\ pc = "deleted"
    /\ \E i \in failedCalls("deleteEvent") : trace[i].to[1] = NotFoundError

-----------------------------------------------------------------------------
\* Vocabulary of the validation claims.
timesParse == parseTime(startTime) /\ parseTime(endTime)

minutesOf(text) == text.hours * 60 + text.minutes

endsOnDate == repeat.exists /\ repeat.endType = UntilDate

errorResult(code) == [status |-> "error", askForUpdates |-> "null", error |-> code]

\* This step is a call of onOkPressed that returns the error result with that code.
returnsError(code) == pc' = "idle" /\ result' = errorResult(code)

\* The selected end, as dates and times of day, is not after the selected start.
selectedEndNotAfterStart ==
    \/ endDate < startDate
    \/ endDate = startDate /\ minutesOf(endTime) <= minutesOf(startTime)

\* The end check of onOkPressed fails: all-day events may end on the start date.
endCheckFails == IF allDay THEN endDate < startDate ELSE selectedEndNotAfterStart

\* The instant the edited event starts at, in the zone of the view-model.
selectedStart == IF allDay THEN startDate ELSE startDate + minutesOf(startTime) * Minute

\* C21 as stated: onOkPressed returns the error timeFormatInvalid_msg
\* whenever the start time text or the end time text does not parse.
C21_TimeFormatAsStated ==
    [][(onOkPressed /\ ~timesParse) => returnsError("timeFormatInvalid_msg")]_vars

\* C21: for an event that is not all-day, onOkPressed returns the error
\* timeFormatInvalid_msg whenever the start time text or the end time text
\* does not parse; for an all-day event the time texts are not read and
\* that error is never returned.
C21_TimeFormat ==
    [][onOkPressed =>
          /\ (~allDay /\ ~timesParse) => returnsError("timeFormatInvalid_msg")
          /\ allDay => ~returnsError("timeFormatInvalid_msg")]_vars

W_C21_UnparsableTimeRejected ==
    /\ pc = "idle"
    /\ result = errorResult("timeFormatInvalid_msg")
    /\ ~allDay
    /\ ~parseTime(startTime)
    /\ parseTime(endTime)

\* C22 as stated: onOkPressed returns the error startAfterEnd_label
\* whenever, for a timed event, the computed end is not strictly after the
\* computed start, or, for an all-day event, the end date is not strictly
\* after the start date.
C22_EndBeforeStartAsStated ==
    [][(onOkPressed /\ (allDay \/ timesParse)
           /\ (IF allDay THEN endDate <= startDate ELSE selectedEndNotAfterStart))
          => returnsError("startAfterEnd_label")]_vars

\* C22: when the rule does not end on a date, onOkPressed returns the error
\* startAfterEnd_label exactly when, for a timed event with parsable times,
\* the selected end is not strictly after the selected start, or, for an
\* all-day event, the end date is before the start date (an all-day event
\* that starts and ends on the same date passes); otherwise it returns no
\* error.
C22_EndBeforeStart ==
    [][(onOkPressed /\ (allDay \/ timesParse) /\ ~endsOnDate) =>
          IF endCheckFails
          THEN returnsError("startAfterEnd_label")
          ELSE pc' # "idle"]_vars

W_C22_AllDayOnOneDateSaved ==
    /\ pc = "saving"
    /\ allDay
    /\ endDate = startDate
    /\ closure.newEvent.startTime = getAllDayDateUTCFromZone(startDate)
    /\ closure.newEvent.endTime = closure.newEvent.startTime + Day

\* C23: when the rule ends on a date and the dates and times pass the other
\* checks, onOkPressed returns the error startAfterEnd_label if the start of
\* the day after the rule's end date is before the start of the event, and
\* otherwise returns no error and writes the rule into the new event.
C23_RepeatEndBeforeStart ==
    [][(onOkPressed /\ (allDay \/ timesParse) /\ ~endCheckFails /\ endsOnDate) =>
          IF getStartOfDayWithZone(repeat.endValue) + Day < selectedStart
          THEN returnsError("startAfterEnd_label")
          ELSE /\ pc' # "idle"
               /\ closure'.newEvent.repeatRule.exists
               /\ closure'.newEvent.repeatRule.endType = UntilDate]_vars

W_C23_RuleEndsBeforeStart ==
    /\ pc = "idle"
    /\ result = errorResult("startAfterEnd_label")
    /\ allDay \/ timesParse
    /\ ~endCheckFails
    /\ endsOnDate
    /\ getStartOfDayWithZone(repeat.endValue) + Day < selectedStart

\* C24: whenever onOkPressed returns an error result, that call has made no
\* store call and no distributor call, and the attendees, the organizer,
\* going, the dates, the times, the repeat rule, the alarms and the existing
\* event are the same as before the call.
C24_ErrorLeavesNoTrace ==
    [][(onOkPressed /\ pc' = "idle" /\ result'.status = "error") =>
          /\ trace' = trace
          /\ detached' = detached
          /\ existingEvent' = existingEvent
          /\ UNCHANGED <<guestVars, timeVars, ruleVars>>]_vars

W_C24_RejectedBeforeResponse ==
    /\ pc = "idle"
    /\ result.status = "error"
    /\ responseAttendee # 0
    /\ Len(attendees) > 1
    /\ trace = <<>>
    /\ existingEvent = persistedEvent

\* C25: the existing event handed to the view-model is never mutated: after
\* any sequence of edits and saves every field of the existing event,
\* including the status of each attendee, equals its value at construction.
C25_ExistingEventNeverMutated == existingEvent = persistedEvent

-----------------------------------------------------------------------------
\* Vocabulary of the sequence claim.
storeCalls == callsOf(trace, "createEvent") \o callsOf(trace, "updateEvent")

isDecimal(digits) ==
    /\ Len(digits) >= 1
    /\ \A i \in DOMAIN digits : digits[i] \in 0..9
    /\ Len(digits) > 1 => digits[1] # 0

\* C26: every save of an existing event persists an event whose sequence is
\* the decimal text of the existing event's sequence plus one; a save of a
\* new event persists the initial sequence "0".
C26_SequenceIncremented ==
    storeCalls # <<>> =>
        IF persistedEvent.exists
        THEN /\ isDecimal(closure.newEvent.sequence)
             /\ filterInt(closure.newEvent.sequence) = filterInt(persistedEvent.sequence) + 1
        ELSE closure.newEvent.sequence = <<0>>

W_C26_NineBecomesTen ==
    /\ callsOf(trace, "updateEvent") # <<>>
    /\ persistedEvent.sequence = <<9>>
    /\ closure.newEvent.sequence = <<1, 0>>

-----------------------------------------------------------------------------
\* Vocabulary of the guest edit claims.
needsAction(address) == [address |-> address, status |-> NEEDS_ACTION]

ownEntries == {i \in DOMAIN attendees : \E k \in DOMAIN mailAddresses :
                                          attendees[i].address = mailAddresses[k]}

firstOwnEntry == CHOOSE i \in ownEntries : \A j \in ownEntries : i <= j

\* C27: addAttendee(address) leaves the attendee list unchanged when an
\* attendee with that address is present, and otherwise appends one
\* attendee with that address and the status needs-action at the end; in
\* both cases the address is in the list afterwards, so a second call with
\* the same address changes nothing.
C27_AddAttendeeOnce ==
    [][\A a \in NewGuests :
          addAttendee(a) =>
              /\ IF \E i \in DOMAIN attendees : attendees[i].address = a
                 THEN attendees' = attendees
                 ELSE attendees' = Append(attendees, needsAction(a))
              /\ Cardinality({i \in DOMAIN attendees' : attendees'[i].address = a})
                    = Cardinality({i \in DOMAIN attendees : attendees[i].address = a})
                      + (IF \E i \in DOMAIN attendees : attendees[i].address = a THEN 0 ELSE 1)]_vars

W_C27_GuestAppended ==
    /\ pc = "idle"
    /\ Len(attendees) = 2
    /\ Len(persistedEvent.attendees) = 1
    /\ attendees[1] = persistedEvent.attendees[1]
    /\ attendees[2].status = NEEDS_ACTION
    /\ attendees[2].address \in GuestAddresses
    /\ attendees[2].address # attendees[1].address

\* C28: selectGoing(status) changes nothing when canModifyOwnAttendance is
\* false; when it is true it sets going to status and either sets the
\* status of the viewer's entry where it is in the list or, if the viewer
\* has no entry, puts a new entry for the viewer's first mail address with
\* that status at the front of the list; all other attendees stay.
C28_SelectGoing ==
    [][\A st \in Statuses :
          selectGoing(st) =>
              IF ~canModifyOwnAttendanceOf(eventType, existingEvent, attendees, mailAddresses)
              THEN UNCHANGED vars
              ELSE /\ going' = st
                   /\ IF ownEntries # {}
                      THEN /\ Len(attendees') = Len(attendees)
                           /\ attendees'[firstOwnEntry] =
                                 [address |-> attendees[firstOwnEntry].address, status |-> st]
                           /\ \A i \in DOMAIN attendees :
                                 i # firstOwnEntry => attendees'[i] = attendees[i]
                      ELSE attendees' =
                             <<[address |-> mailAddresses[1], status |-> st]>> \o attendees
                   /\ UNCHANGED <<existingEvent, organizer, timeVars, ruleVars, flowVars>>]_vars

W_C28_ViewerPutInFront ==
    /\ pc = "idle"
    /\ going = ACCEPTED
    /\ Len(attendees) = 2
    /\ attendees[1] = [address |-> mailAddresses[1], status |-> ACCEPTED]
    /\ Len(persistedEvent.attendees) = 1
    /\ attendees[2] = persistedEvent.attendees[1]

-----------------------------------------------------------------------------
\* Vocabulary of the start date claim.
YearMinutes == YearDays * Day

\* The date lies in the year 1970 or later, in the zone of the view-model.
notBefore1970(d) == d + ZoneOffset >= 0

\* C29: onStartDateSelected(d) with d in 1970 or later sets the start date
\* to d and moves the end date by the same number of days, so that end date
\* minus start date is unchanged; with d before 1970 it sets the start date
\* to d with the year replaced by the current year and leaves the end date
\* unchanged; with no date it changes neither date. The start time and the
\* end time are unchanged in all three cases.
C29_StartDateShiftsEndDate ==
    [][\A date \in PickedDates :
          onStartDateSelected(date) =>
              /\ UNCHANGED <<startTime, endTime>>
              /\ IF date = {}
                 THEN UNCHANGED <<startDate, endDate>>
                 ELSE \A d \in date :
                        IF notBefore1970(d)
                        THEN /\ startDate' = d
                             /\ endDate' - startDate' = endDate - startDate
                        ELSE /\ (startDate' - d) % YearMinutes = 0
                             /\ (startDate' + ZoneOffset) \div YearMinutes
                                   = (Now + ZoneOffset) \div YearMinutes
                             /\ endDate' = endDate]_vars

W_C29_EndDateMovedBack ==
    /\ pc = "idle"
    /\ startDate = dayStart(1)
    /\ endDate = dayStart(0)

\* C30: for an existing event with guests that lives in a shared calendar
\* the viewer may write to, adding an alarm and calling onOkPressed calls
\* updateEvent exactly once, sends no email and returns {status: ok,
\* askForUpdates: null}, whoever the organizer of the event is.
C30_AlarmInSharedCalendar ==
    (/\ eventType = SHARED_RW
     /\ persistedEvent.attendees # <<>>
     /\ attendees = persistedEvent.attendees
     /\ alarms # <<>>
     /\ pc # "idle") =>
        /\ pc # "asked"
        /\ Len(callsOf(trace, "updateEvent")) = 1
        /\ \A i \in DOMAIN trace :
              trace[i].kind = "call" => trace[i].op = "updateEvent"
        /\ pc = "done" => result = [status |-> "ok", askForUpdates |-> "null", error |-> ""]

-----------------------------------------------------------------------------
\* Vocabulary of the failure and dispatch claims.
SaveCalls == StoreCalls \cup DistributorCalls

guestDispatches == {i \in DOMAIN trace : trace[i].kind = "call" /\ trace[i].op \in GuestCalls}

ownAddressSet == {mailAddresses[k] : k \in DOMAIN mailAddresses}

\* C31: during a save, a failure of any collaborator call makes the promise
\* returned by onOkPressed, or by the confirmation callback when the call is
\* made there, fail with that failure; no collaborator failure is dropped.
C31_NoFailureDropped ==
    ~deleting =>
        \A op \in SaveCalls : \A i \in failedCalls(op) :
            \/ chain.branch = "immediate" /\ result.status = "rejected" /\ result.error = op
            \/ chain.branch = "callback" /\ cbPromise = "rejected"

\* C35: invite, update and cancellation emails of a save are dispatched only
\* after the store's create or update call has completed successfully; when
\* that call fails none of the three is dispatched, in the immediate branch
\* and in the confirmation callback.
C35_DispatchAfterPersist ==
    /\ \A i \in guestDispatches :
          \E j \in 1..(i - 1) : trace[j].kind = "ok" /\ trace[j].op \in StoreCalls
    /\ (\E op \in StoreCalls : failedCalls(op) # {}) => guestDispatches = {}

W_C35_PersistFailedBeforeUpdate ==
    /\ pc = "failed"
    /\ failedCalls("updateEvent") # {}
    /\ chain.branch = "callback"
    /\ chain.sendOutUpdate
    /\ closure.existingAttendees # <<>>
    /\ closure.newAttendees # <<>>

\* C36: no dispatch to guests, by onOkPressed (sendInvite, sendUpdate,
\* sendCancellation) or by deleteEvent (sendCancellation), has one of the
\* viewer's own mail addresses among its recipients.
C36_ViewerNeverNotified ==
    \A i \in guestDispatches :
        \A k \in DOMAIN trace[i].to : trace[i].to[k] \notin ownAddressSet

-----------------------------------------------------------------------------
\* Vocabulary of the attendee list claims.
distinctAddresses(list) ==
    \A i, j \in DOMAIN list : list[i].address = list[j].address => i = j

\* The attendees of the existing event, none for a new event.
givenAttendees == IF persistedEvent.exists THEN persistedEvent.attendees ELSE <<>>

entriesOf(list, address) == {i \in DOMAIN list : list[i].address = address}

\* C37: if the attendee addresses of the existing event are pairwise
\* distinct, the attendee list of the view-model has pairwise distinct
\* addresses, and at most one entry for the viewer's first mail address,
\* after any sequence of addAttendee, removeAttendee and selectGoing;
\* removeAttendee(address) removes the single entry with that address, keeps
\* the others in their order, and changes nothing when there is none.
C37_DistinctAddresses ==
    /\ [](distinctAddresses(givenAttendees) =>
            /\ distinctAddresses(attendees)
            /\ Cardinality(entriesOf(attendees, mailAddresses[1])) <= 1)
    /\ [][\A a \in Addresses :
            (removeAttendee(a) /\ distinctAddresses(givenAttendees)) =>
                /\ entriesOf(attendees', a) = {}
                /\ attendees' = SelectSeq(attendees, LAMBDA e : e.address # a)]_vars

W_C37_GivenGuestRemoved ==
    /\ pc = "idle"
    /\ Len(givenAttendees) = 1
    /\ Len(attendees) = 1
    /\ attendees[1].address \in GuestAddresses
    /\ attendees[1].address # givenAttendees[1].address

\* C38: whenever the attendee list has an entry for one of the viewer's
\* addresses, going equals the status of the first such entry.
C38_GoingMirrorsOwnEntry ==
    ownEntries # {} => going = attendees[firstOwnEntry].status

\* C40: onStartTimeSelected(t) on an event whose start date equals its end
\* date sets the start time to t and moves the end time so that the
\* duration between start time and end time is the same as before the call,
\* the hour capped at 23.
C40_EndTimeFollowsStartTime ==
    [][\A t \in TimeTexts :
          (/\ onStartTimeSelected(t)
           /\ startDate = endDate
           /\ parseTime(t)
           /\ timesParse
           /\ minutesOf(endTime) >= minutesOf(startTime)) =>
              LET moved == minutesOf(t) + minutesOf(endTime) - minutesOf(startTime)
              IN /\ startTime' = t
                 /\ endTime' = timeText(IF moved \div 60 > 23 THEN 23 ELSE moved \div 60,
                                        moved % 60)]_vars

\* C34: when the rule ends after a count and the dates and times are valid,
\* onOkPressed does not fail; if the count is not a number or is less than 1
\* the rule of the persisted event never ends, and with a count of at least
\* 1 the rule ends after that count.
C34_InvalidCountNeverEnds ==
    [][(/\ onOkPressed
        /\ repeat.exists
        /\ repeat.endType = Count
        /\ allDay \/ timesParse
        /\ ~endCheckFails) =>
          /\ pc' # "idle"
          /\ closure'.newEvent.repeatRule.exists
          /\ IF repeat.endValue = NaN \/ repeat.endValue < 1
             THEN closure'.newEvent.repeatRule.endType = Never
             ELSE /\ closure'.newEvent.repeatRule.endType = Count
                  /\ closure'.newEvent.repeatRule.endValue = repeat.endValue]_vars

W_C34_NotANumberSaved ==
    /\ pc = "saving"
    /\ repeat.exists
    /\ repeat.endType = Count
    /\ repeat.endValue = NaN
    /\ closure.newEvent.repeatRule.endType = Never

-----------------------------------------------------------------------------
\* Vocabulary of the claims about opened events.
wholeMinute(t) == t - (t % Minute)

savedEvent == closure.newEvent

\* The dates the view-model shows for an all-day event are its first and its
\* last included day.
allDayDatesShown ==
    (persistedEvent.exists /\ isAllDayEvent(persistedEvent)) =>
        /\ allDay
        /\ startDate + ZoneOffset = persistedEvent.startTime
        /\ endDate + ZoneOffset + Day = persistedEvent.endTime

\* C32 as stated: opening an existing event and calling onOkPressed without
\* any edit persists an event with the same start and end as the existing
\* event, for timed events and for all-day events; the dates shown for an
\* all-day event are its first and last included day.
C32_TimesPreservedAsStated ==
    /\ allDayDatesShown
    /\ (persistedEvent.exists /\ storeCalls # <<>>) =>
          /\ savedEvent.startTime = persistedEvent.startTime
          /\ savedEvent.endTime = persistedEvent.endTime

\* C32: opening an existing event and calling onOkPressed without any edit
\* persists an event whose start and end are those of the existing event
\* with the seconds cut off, so the same start and end for all-day events
\* and for timed events that start and end on a whole minute; the dates
\* shown for an all-day event are its first and last included day.
C32_TimesPreserved ==
    /\ allDayDatesShown
    /\ (persistedEvent.exists /\ storeCalls # <<>>) =>
          /\ savedEvent.startTime = wholeMinute(persistedEvent.startTime)
          /\ savedEvent.endTime = wholeMinute(persistedEvent.endTime)
          /\ isAllDayEvent(persistedEvent) =>
                /\ savedEvent.startTime = persistedEvent.startTime
                /\ savedEvent.endTime = persistedEvent.endTime

W_C32_ThreeDaysSavedAgain ==
    /\ storeCalls # <<>>
    /\ persistedEvent.exists
    /\ isAllDayEvent(persistedEvent)
    /\ persistedEvent.endTime - persistedEvent.startTime = 3 * Day
    /\ endDate - startDate = 2 * Day
    /\ savedEvent.endTime = persistedEvent.endTime

\* C33: an event opened from a calendar file for which no stored event with
\* the same UID exists is marked as a copy before the view-model is built:
\* the view-model is classified INVITE, is not read-only, and can modify
\* neither guests nor organizer; when a stored event with the UID exists
\* that event is opened; a file that cannot be parsed, holds no event or
\* holds an event without UID opens no event.
C33_FileEventOpenedAsCopy ==
    opened.by = "file" =>
        LET fileData == opened.fileData
        IN IF ~fileData.parses \/ fileData.contents = <<>>
           THEN pc = "cannotOpenEvent" /\ trace = <<>>
           ELSE IF fileData.contents[1].uid = NULL
           THEN pc = "cannotOpenEvent" /\ trace = <<>>
           ELSE /\ pc # "cannotOpenEvent"
                /\ IF opened.byUid.exists
                   THEN persistedEvent = opened.byUid
                   ELSE /\ persistedEvent = [fileData.contents[1].event EXCEPT !.isCopy = TRUE]
                        /\ eventType = INVITE
                        /\ ~readOnly
                        /\ ~canModifyGuests
                        /\ ~canModifyOrganizer

W_C33_ParsedEventMarked ==
    /\ opened.by = "file"
    /\ pc = "idle"
    /\ ~opened.byUid.exists
    /\ persistedEvent.exists
    /\ persistedEvent.isCopy
    /\ ~opened.fileData.contents[1].event.isCopy
    /\ attendees = <<>>

\* C39: saving an existing event keeps its stored alarms: the alarm list
\* passed to updateEvent holds each alarm the store holds for the event,
\* whenever the load of the alarms completes.
C39_StoredAlarmsKept ==
    (persistedEvent.exists /\ callsOf(trace, "updateEvent") # <<>>) =>
        \A k \in DOMAIN alarmLoad.alarms :
            \E j \in DOMAIN closure.newAlarms : closure.newAlarms[j] = alarmLoad.alarms[k]

====
